---- MODULE Spec2Model ----
(***************************************************************************)
(* Model of the slide deck merge engine (services/slide_service.py), the   *)
(* in-memory session store (core/session_manager.py), the endpoints of     *)
(* routers/slides.py that drive them, and the themed renderer              *)
(* (services/template_builder.py).                                         *)
(*                                                                         *)
(* Python slide records are dicts, i.e. mutable objects with identity.     *)
(* list.copy() is a shallow copy: the copy is a new list holding the SAME  *)
(* dict objects.  The model therefore keeps a heap of records addressed by *)
(* object id; a deck (a Python list of dicts) is a sequence of object ids. *)
(* No code of the repository mutates a list that is shared, so lists are   *)
(* modelled as values and only dicts live in the heap.                     *)
(***************************************************************************)
EXTENDS Integers, Sequences, FiniteSets, TLC

VARIABLES
    heap,             \* heap[o]: the dict with object id o (1..Len(heap))
    sessions,         \* SessionManager._sessions: session id -> SessionData
    nextSid,          \* number of session ids handed out so far (uuid4 is fresh)
    call,             \* the last call made on the store / endpoints and its outcome
    pc,               \* merge harness: "idle" | "args" | "done"
    existing_slides,  \* merge harness: argument existing_slides (list of object ids)
    new_slides,       \* merge harness: argument new_slides (list of object ids)
    merged,           \* merge harness: the list merge_slides returned
    pre,              \* merge harness: the heap when merge_slides was called
    now,              \* time.time(), in units of the sweep period
    last_accessed,    \* SessionData.last_accessed: session id -> time
    next_sweep,       \* the time at which _cleanup_loop's sleep ends
    pre_commit,       \* store harness: the session as it was before the last update_slides
    arg,              \* function harnesses: the arguments of the call
    out               \* function harnesses: what the call returned

vars == <<heap, sessions, nextSid, call, pc, existing_slides, new_slides, merged, pre,
          now, last_accessed, next_sweep, pre_commit, arg, out>>

-----------------------------------------------------------------------------
(* Bounds of the model *)

MaxDeck == 3
MaxEdit == 2
MaxGen == 2
MaxHist == 3
MaxObj == 4

-----------------------------------------------------------------------------
(* Floats and Python values of the slide_number field.                     *)
(* A float is kept in sign-magnitude form, magnitude in hundredths, so     *)
(* that -0.0 and 0.0 are different floats that compare equal, as in        *)
(* Python.  A slide_number is either a number (k = "num", m in hundredths) *)
(* or the string "{:.1f}" produced (k = "str", m in tenths: the text is    *)
(* the sign, m \div 10, a dot and m % 10).                                 *)

F(h) == [neg |-> h < 0, m |-> IF h < 0 THEN -h ELSE h]

FloatVal(f) == IF f.neg THEN -f.m ELSE f.m

FloatNeg(f) == [neg |-> ~f.neg, m |-> f.m]

PyNum(f) == [k |-> "num", neg |-> f.neg, m |-> f.m]

PyInt(i) == [k |-> "num", neg |-> i < 0, m |-> 100 * (IF i < 0 THEN -i ELSE i)]

\* float(x) for a number or for a string written by "{:.1f}"
ToFloat(v) == IF v.k = "num" THEN [neg |-> v.neg, m |-> v.m]
              ELSE [neg |-> v.neg, m |-> 10 * v.m]

\* "{:.1f}".format(f): one decimal digit, rounded to nearest (the inputs of
\* the model hold no value whose hundredths digit is 5, where the result
\* depends on the binary expansion of the float)
Format1f(f) == [k |-> "str", neg |-> f.neg, m |-> (f.m + 5) \div 10]

\* Python's == on two slide_number values
PyEq(a, b) == /\ a.k = b.k
              /\ IF a.k = "num" THEN FloatVal(ToFloat(a)) = FloatVal(ToFloat(b))
                 ELSE a = b

-----------------------------------------------------------------------------
(* Sequences helpers *)

Range(s) == {s[i] : i \in 1..Len(s)}

SeqsUpTo(S, n) == UNION {[1..k -> S] : k \in 0..n}

Last(s) == s[Len(s)]

Front(s) == SubSeq(s, 1, Len(s) - 1)

-----------------------------------------------------------------------------
(* merge_slides *)

\* lines 192-195: every record of both lists gets its slide_number replaced,
\* in place, by the string "{:.1f}".format(float(slide_number))
FormatNumbers(h, existing, new) ==
    [o \in DOMAIN h |->
        IF o \in Range(existing) \cup Range(new)
        THEN [h[o] EXCEPT !.slide_number = Format1f(ToFloat(@))]
        ELSE h[o]]

\* the set of strings "{:.1f}".format(-float(n)) for n in numbers
Opposite(numbers) == {Format1f(FloatNeg(ToFloat(n))) : n \in numbers}

\* sorted(xs, key=lambda x: float(x["slide_number"])): a stable sort
RECURSIVE InsertSorted(_, _, _)
InsertSorted(h, s, x) ==
    IF s = <<>> THEN <<x>>
    ELSE IF FloatVal(ToFloat(h[x].slide_number)) < FloatVal(ToFloat(h[Last(s)].slide_number))
         THEN Append(InsertSorted(h, Front(s), x), Last(s))
         ELSE Append(s, x)

RECURSIVE SortedByNumber(_, _)
SortedByNumber(h, xs) ==
    IF xs = <<>> THEN <<>>
    ELSE InsertSorted(h, SortedByNumber(h, Front(xs)), Last(xs))

\* the slide_number strings of a list of records
Numbers(h1, xs) == {h1[o].slide_number : o \in Range(xs)}

\* faulty variant: no existing record is dropped for a new one
RemoveReplacedNone(h1, existing, new) == existing

\* lines 198-199: existing records whose string equals a new record's string
\* are dropped (replace)
RemoveReplaced(h1, existing, new) ==
    LET new_numbers == Numbers(h1, new)
        NotReplaced(o) == h1[o].slide_number \notin new_numbers
    IN  SelectSeq(existing, NotReplaced)

\* faulty variant: delete markers remove nothing
FilteredExistingAll(h1, existing2, new) == existing2

\* lines 205-206, 209: existing records (those left by RemoveReplaced) whose
\* string is the opposite of a new record's string are dropped (delete)
FilteredExisting(h1, existing2, new) ==
    LET opposite_new == Opposite(Numbers(h1, new))
        Kept(o) == h1[o].slide_number \notin opposite_new
    IN  SelectSeq(existing2, Kept)

\* lines 202-203, 210: new records whose string is the opposite of the string
\* of an existing record left by RemoveReplaced are dropped (delete markers)
FilteredNew(h1, existing2, new) ==
    LET opposite_existing == Opposite(Numbers(h1, existing2))
        Kept(o) == h1[o].slide_number \notin opposite_existing
    IN  SelectSeq(new, Kept)

\* faulty variant: the concatenation is not sorted
MergedListUnsorted(h1, existing, new) ==
    LET existing2 == RemoveReplaced(h1, existing, new)
    IN  FilteredExisting(h1, existing2, new) \o FilteredNew(h1, existing2, new)

\* lines 197-216: the list merge_slides returns, given the heap after
\* FormatNumbers
MergedList(h1, existing, new) ==
    LET existing2 == RemoveReplaced(h1, existing, new)
    IN  SortedByNumber(h1, FilteredExisting(h1, existing2, new)
                             \o FilteredNew(h1, existing2, new))

\* faulty variant: enumerate(merged) without start=1
RenumberValueFromZero(i) == PyInt(i - 1)

\* the number enumerate(merged, start=1) assigns to the record at index i
RenumberValue(i) == PyInt(i)

\* lines 219-220: slide["slide_number"] = i, in place; an object that occurs
\* twice in the list keeps the last number assigned to it
Renumber(h, m) ==
    [o \in DOMAIN h |->
        IF o \in Range(m)
        THEN LET i == CHOOSE j \in 1..Len(m) :
                         m[j] = o /\ \A l \in (j + 1)..Len(m) : m[l] # o
             IN  [h[o] EXCEPT !.slide_number = RenumberValue(i)]
        ELSE h[o]]

\* merge_slides(existing_slides, new_slides): the list returned and the heap
\* the call leaves behind
MergeSlides(h, existing, new) ==
    LET h1 == FormatNumbers(h, existing, new)
        m == MergedList(h1, existing, new)
    IN  [merged |-> m, heap |-> Renumber(h1, m)]

-----------------------------------------------------------------------------
(* The merge harness: merge_slides applied to arguments drawn from bounded *)
(* sets.  The existing deck holds records 1..ne of the heap and the edit   *)
(* set holds records ne+1..ne+nn, all distinct objects, as json.loads      *)
(* builds them.                                                            *)

ExistingPos == {F(100), F(200), F(300)}

EditPos == {F(-200), F(-100), F(-400), F(100), F(200), F(10), F(110), F(120), F(214)}

Slide(num, title, narration) ==
    [slide_number |-> num, title |-> title, content |-> "c",
     narration |-> narration, image_keyword |-> "k"]

NoCall == [op |-> "none", sid |-> 0, result |-> "none", popped |-> FALSE]

\* no update_slides call is being followed
NoCommit == [stage |-> "none", sid |-> 0, slides |-> <<>>, slide_history |-> <<>>]

\* session_manager.py line 105, time.sleep(60): the unit of time of the model
SweepPeriod == 1

InitMerge ==
    /\ \E ex \in SeqsUpTo(ExistingPos, MaxDeck), ed \in SeqsUpTo(EditPos, MaxEdit) :
          /\ heap = [i \in 1..(Len(ex) + Len(ed)) |->
                        IF i <= Len(ex) THEN Slide(PyNum(ex[i]), "A", "n")
                        ELSE Slide(PyNum(ed[i - Len(ex)]), "B", "")]
          /\ existing_slides = [i \in 1..Len(ex) |-> i]
          /\ new_slides = [i \in 1..Len(ed) |-> Len(ex) + i]
    /\ pre = heap
    /\ merged = <<>>
    /\ pc = "args"
    /\ sessions = <<>>
    /\ nextSid = 0
    /\ call = NoCall
    /\ now = 0
    /\ last_accessed = <<>>
    /\ next_sweep = SweepPeriod
    /\ pre_commit = NoCommit
    /\ arg = <<>>
    /\ out = <<>>

CallMerge ==
    /\ pc = "args"
    /\ LET r == MergeSlides(heap, existing_slides, new_slides)
       IN  /\ heap' = r.heap
           /\ merged' = r.merged
    /\ pc' = "done"
    /\ UNCHANGED <<sessions, nextSid, call, existing_slides, new_slides, pre,
                   now, last_accessed, next_sweep, pre_commit, arg, out>>

NextMerge == CallMerge

SpecMerge == InitMerge /\ [][NextMerge]_vars

-----------------------------------------------------------------------------
(* SessionManager: the store operations, as functions of the session map.  *)
(* Each returns the map it leaves behind and what the caller gets: the     *)
(* session ("session"), None ("None") or an exception ("raised").          *)

\* create_session, line 53: the history a new session starts with
\* faulty variant: the first deck is not recorded
InitialHistoryEmpty(slides) == <<>>

InitialHistory(slides) == <<slides>>

\* create_session, lines 51-57: the SessionData stored under a fresh id
NewSession(slides) ==
    [slides |-> slides, slide_history |-> InitialHistory(slides)]

\* get_session, lines 62-67
GetSession(ss, sid) == IF sid \in DOMAIN ss THEN "session" ELSE "None"

\* faulty variant: the deck becomes current but no snapshot is appended
UpdateSlidesNoSnapshot(ss, sid, slides) ==
    IF sid \in DOMAIN ss
    THEN [sessions |-> [ss EXCEPT ![sid].slides = slides], result |-> "session"]
    ELSE [sessions |-> ss, result |-> "None"]

\* update_slides, lines 71-77: slides.copy() is a new list of the same dicts
UpdateSlides(ss, sid, slides) ==
    IF GetSession(ss, sid) = "None"
    THEN [sessions |-> ss, result |-> "None"]
    ELSE [sessions |-> [ss EXCEPT ![sid].slides = slides,
                                  ![sid].slide_history = Append(@, slides)],
          result |-> "session"]

\* faulty variant: the last snapshot may be popped
UndoGuardNonEmpty(n) == n >= 1

\* undo, line 84: the condition under which a snapshot is popped
UndoGuard(n) == n > 1

\* faulty variant: the snapshot is popped but the current deck is not restored
UndoNoRestore(ss, sid) ==
    IF sid \notin DOMAIN ss
    THEN [sessions |-> ss, result |-> "None", popped |-> FALSE]
    ELSE IF Len(ss[sid].slide_history) > 1
    THEN [sessions |-> [ss EXCEPT ![sid].slide_history = Front(@)],
          result |-> "session", popped |-> TRUE]
    ELSE [sessions |-> ss, result |-> "session", popped |-> FALSE]

\* undo, lines 81-88.  list.pop() on an empty list and list[-1] on an empty
\* list raise IndexError; a pop that has happened stays when the next line
\* raises.
Undo(ss, sid) ==
    IF GetSession(ss, sid) = "None"
    THEN [sessions |-> ss, result |-> "None", popped |-> FALSE]
    ELSE LET hist == ss[sid].slide_history
         IN  IF ~UndoGuard(Len(hist))
             THEN [sessions |-> ss, result |-> "session", popped |-> FALSE]
             ELSE IF hist = <<>>
             THEN [sessions |-> ss, result |-> "raised", popped |-> FALSE]
             ELSE IF Front(hist) = <<>>
             THEN [sessions |-> [ss EXCEPT ![sid].slide_history = <<>>],
                   result |-> "raised", popped |-> TRUE]
             ELSE [sessions |-> [ss EXCEPT ![sid].slide_history = Front(hist),
                                           ![sid].slides = Last(Front(hist))],
                   result |-> "session", popped |-> TRUE]

\* SessionData.__init__, line 24: last_accessed of a new session
Created(la, sid, t) == la @@ (sid :> t)

\* SessionData.touch, lines 26-28, on the session get_session found
Touch(la, sid, t) == IF sid \in DOMAIN la THEN [la EXCEPT ![sid] = t] ELSE la

\* the SessionData object goes with its map entry
Dropped(la, sid) == [s \in DOMAIN la \ {sid} |-> la[s]]

\* faulty variant: the whole map is cleared
DeleteSessionAll(ss, sid) ==
    [sessions |-> <<>>, result |-> IF sid \in DOMAIN ss THEN "True" ELSE "False"]

\* delete_session, lines 97-98
DeleteSession(ss, sid) ==
    [sessions |-> [s \in DOMAIN ss \ {sid} |-> ss[s]],
     result |-> IF sid \in DOMAIN ss THEN "True" ELSE "False"]

-----------------------------------------------------------------------------
(* llm_service.generate_slides: the external model's answer is an input;   *)
(* what the function does to its arguments is modelled.                    *)

\* llm_service.py lines 142-143: the narration of every record of
\* existing_slides is reset, in place
ResetNarration(h, existing) ==
    [o \in DOMAIN h |->
        IF o \in Range(existing) THEN [h[o] EXCEPT !.narration = ""] ELSE h[o]]

\* the positions the external model gives to the records of a new deck
GenPos == {F(100), F(200)}

\* the positions the external model gives to the records of an edit set
SessionEditPos == {F(-100), F(100), F(110)}

\* json.loads builds one new dict per record: they are appended to the heap
Allocate(h, positions, title, narration) ==
    h \o [i \in 1..Len(positions) |-> Slide(PyNum(positions[i]), title, narration)]

\* the object ids of the records Allocate appended
Allocated(h, positions) == [i \in 1..Len(positions) |-> Len(h) + i]

-----------------------------------------------------------------------------
(* The endpoints of routers/slides.py and routers/sessions.py, one action  *)
(* per request.  Requests do not overlap in this specification.            *)

\* the session ids (uuid4 values) the requests name; nextSid + 1 is the next
\* id create_session hands out
SessionIds == {1}

harness == <<pc, existing_slides, new_slides, merged, pre, pre_commit, arg, out>>

\* the clock does not advance and the sweep does not run between the
\* requests of this specification
timers == <<now, next_sweep>>

Init ==
    /\ heap = <<>>
    /\ sessions = <<>>
    /\ nextSid = 0
    /\ call = NoCall
    /\ pc = "idle"
    /\ existing_slides = <<>>
    /\ new_slides = <<>>
    /\ merged = <<>>
    /\ pre = <<>>
    /\ now = 0
    /\ last_accessed = <<>>
    /\ next_sweep = SweepPeriod
    /\ pre_commit = NoCommit
    /\ arg = <<>>
    /\ out = <<>>

\* POST /api/slides/generate, lines 63-92.  The external model's answer is
\* either a list of records, or the call (or the parsing of its answer)
\* raises and no session is created.
GenerateSlides ==
    /\ \/ /\ nextSid + 1 \in SessionIds
          /\ \E positions \in SeqsUpTo(GenPos, MaxGen) :
                /\ Len(heap) + Len(positions) <= MaxObj
                /\ heap' = Allocate(heap, positions, "A", "n")
                /\ sessions' = sessions @@
                      ((nextSid + 1) :> NewSession(Allocated(heap, positions)))
          /\ last_accessed' = Created(last_accessed, nextSid + 1, now)
          /\ nextSid' = nextSid + 1
          /\ call' = [op |-> "generate", sid |-> nextSid + 1, result |-> "session",
                      popped |-> FALSE]
       \/ /\ call' = [op |-> "generate", sid |-> 0, result |-> "raised",
                      popped |-> FALSE]
          /\ UNCHANGED <<heap, sessions, nextSid, last_accessed>>
    /\ UNCHANGED <<harness, timers>>

\* POST /api/slides/edit, lines 101-136.  generate_slides resets the
\* narration of the records of session.slides.copy() before it calls the
\* external model; when that call (or the parsing of its answer) raises, the
\* request ends there.
EditSlides(sid) ==
    /\ IF GetSession(sessions, sid) = "None"
       THEN /\ call' = [op |-> "edit", sid |-> sid, result |-> "None", popped |-> FALSE]
            /\ UNCHANGED <<heap, sessions>>
       ELSE LET current == sessions[sid].slides
                h1 == ResetNarration(heap, current)
            IN  \/ /\ Len(sessions[sid].slide_history) < MaxHist
                   /\ \E positions \in SeqsUpTo(SessionEditPos, MaxEdit) :
                         /\ Len(heap) + Len(positions) <= MaxObj
                         /\ LET h2 == Allocate(h1, positions, "B", "")
                                r == MergeSlides(h2, current, Allocated(h1, positions))
                                u == UpdateSlides(sessions, sid, r.merged)
                            IN  /\ heap' = r.heap
                                /\ sessions' = u.sessions
                                /\ call' = [op |-> "edit", sid |-> sid,
                                            result |-> u.result, popped |-> FALSE]
                \/ /\ heap' = h1
                   /\ call' = [op |-> "edit", sid |-> sid, result |-> "raised",
                               popped |-> FALSE]
                   /\ UNCHANGED sessions
    /\ last_accessed' = Touch(last_accessed, sid, now)
    /\ UNCHANGED <<nextSid, harness, timers>>

\* a key the external model left out of a record: d["title"] raises KeyError
Missing == "<no key>"

\* POST /api/slides/edit, lines 101-136, when the external model's answer is
\* one record that lacks a key.  generate_slides (llm_service.py lines
\* 220-233) hands the record on as it is.
\*  - no "slide_number": merge_slides has formatted the numbers of the
\*    existing records (lines 192-193) when line 195 raises KeyError; the
\*    record of the answer is dropped with the request and is not kept in
\*    the heap;
\*  - no "title": merge_slides and update_slides go through, then
\*    SlideData(**s) of line 128 raises a ValidationError if the record is in
\*    the merged deck.
\* Both exceptions end in the HTTP 500 of lines 134-136.
EditSlidesMalformed(sid) ==
    /\ sid \in DOMAIN sessions
    /\ LET current == sessions[sid].slides
           h1 == ResetNarration(heap, current)
       IN  \/ /\ heap' = FormatNumbers(h1, current, <<>>)
              /\ call' = [op |-> "edit", sid |-> sid, result |-> "KeyError",
                          popped |-> FALSE]
              /\ UNCHANGED sessions
           \/ /\ Len(sessions[sid].slide_history) < MaxHist
              /\ Len(heap) + 1 <= MaxObj
              /\ \E position \in SessionEditPos :
                    LET h2 == Allocate(h1, <<position>>, Missing, "")
                        r == MergeSlides(h2, current, Allocated(h1, <<position>>))
                        u == UpdateSlides(sessions, sid, r.merged)
                    IN  /\ heap' = r.heap
                        /\ sessions' = u.sessions
                        /\ call' = [op |-> "edit", sid |-> sid,
                                    result |-> IF \E o \in Range(r.merged) :
                                                     r.heap[o].title = Missing
                                               THEN "ValidationError"
                                               ELSE u.result,
                                    popped |-> FALSE]
    /\ last_accessed' = Touch(last_accessed, sid, now)
    /\ UNCHANGED <<nextSid, harness, timers>>

\* POST /api/slides/{session_id}/undo, lines 192-200
UndoSlides(sid) ==
    /\ LET u == Undo(sessions, sid)
       IN  /\ sessions' = u.sessions
           /\ call' = [op |-> "undo", sid |-> sid, result |-> u.result,
                       popped |-> u.popped]
    /\ last_accessed' = Touch(last_accessed, sid, now)
    /\ UNCHANGED <<heap, nextSid, harness, timers>>

\* GET /api/slides/{session_id}/preview, lines 145-155
PreviewSlides(sid) ==
    /\ call' = [op |-> "preview", sid |-> sid, result |-> GetSession(sessions, sid),
                popped |-> FALSE]
    /\ last_accessed' = Touch(last_accessed, sid, now)
    /\ UNCHANGED <<heap, sessions, nextSid, harness, timers>>

\* DELETE /api/sessions/{session_id}, lines 51-54
DeleteSessionRequest(sid) ==
    /\ LET d == DeleteSession(sessions, sid)
       IN  /\ sessions' = d.sessions
           /\ call' = [op |-> "delete", sid |-> sid, result |-> d.result,
                       popped |-> FALSE]
    /\ last_accessed' = Dropped(last_accessed, sid)
    /\ UNCHANGED <<heap, nextSid, harness, timers>>

Next ==
    \/ GenerateSlides
    \/ \E sid \in SessionIds : EditSlides(sid)
    \/ \E sid \in SessionIds : UndoSlides(sid)
    \/ \E sid \in SessionIds : PreviewSlides(sid)
    \/ \E sid \in SessionIds : DeleteSessionRequest(sid)

Spec == Init /\ [][Next]_vars

\* the same session when the answers of the external model to edit
\* requests lack a key
NextEdit ==
    \/ GenerateSlides
    \/ \E sid \in SessionIds : EditSlidesMalformed(sid)
    \/ \E sid \in SessionIds : UndoSlides(sid)
    \/ \E sid \in SessionIds : PreviewSlides(sid)

SpecEdit == Init /\ [][NextEdit]_vars

-----------------------------------------------------------------------------
(* The session store on its own: the calls of SessionManager made in any   *)
(* order on two session ids, with the clock and the cleanup thread.  The   *)
(* store never looks into the records of a deck, so the decks are drawn    *)
(* from a fixed set of lists over two records.                             *)

MaxStoreHist == 3
MaxTime == 2

\* config.py line 28, SESSION_TTL_SECONDS (taken from the environment
\* variable SESSION_TTL): one sweep period here
SESSION_TTL_SECONDS == 1

StoreIds == {1, 2}

StoreDecks == {<<1>>, <<1, 2>>}

InitStore ==
    /\ heap = <<Slide(PyNum(F(100)), "A", "n"), Slide(PyNum(F(200)), "A", "n")>>
    /\ sessions = <<>>
    /\ nextSid = 0
    /\ call = NoCall
    /\ pc = "idle"
    /\ existing_slides = <<>>
    /\ new_slides = <<>>
    /\ merged = <<>>
    /\ pre = <<>>
    /\ now = 0
    /\ last_accessed = <<>>
    /\ next_sweep = SweepPeriod
    /\ pre_commit = NoCommit
    /\ arg = <<>>
    /\ out = <<>>

storeFixed == <<heap, pc, existing_slides, new_slides, merged, pre, arg, out>>

\* create_session, lines 51-58
CreateSession ==
    /\ nextSid + 1 \in StoreIds
    /\ \E slides \in StoreDecks :
          sessions' = sessions @@ ((nextSid + 1) :> NewSession(slides))
    /\ last_accessed' = Created(last_accessed, nextSid + 1, now)
    /\ nextSid' = nextSid + 1
    /\ call' = [op |-> "create", sid |-> nextSid + 1, result |-> "session",
                popped |-> FALSE]
    /\ pre_commit' = NoCommit
    /\ UNCHANGED <<storeFixed, timers>>

\* get_session, lines 62-67
GetSessionCall(sid) ==
    /\ call' = [op |-> "get", sid |-> sid, result |-> GetSession(sessions, sid),
                popped |-> FALSE]
    /\ last_accessed' = Touch(last_accessed, sid, now)
    /\ pre_commit' = NoCommit
    /\ UNCHANGED <<sessions, nextSid, storeFixed, timers>>

\* update_slides, lines 71-77
UpdateSlidesCall(sid, slides) ==
    /\ sid \in DOMAIN sessions => Len(sessions[sid].slide_history) < MaxStoreHist
    /\ LET u == UpdateSlides(sessions, sid, slides)
       IN  /\ sessions' = u.sessions
           /\ call' = [op |-> "update", sid |-> sid, result |-> u.result,
                       popped |-> FALSE]
    /\ last_accessed' = Touch(last_accessed, sid, now)
    /\ pre_commit' = IF sid \in DOMAIN sessions
                     THEN [stage |-> "committed", sid |-> sid,
                           slides |-> sessions[sid].slides,
                           slide_history |-> sessions[sid].slide_history]
                     ELSE NoCommit
    /\ UNCHANGED <<nextSid, storeFixed, timers>>

\* undo, lines 81-88
UndoCall(sid) ==
    /\ LET u == Undo(sessions, sid)
       IN  /\ sessions' = u.sessions
           /\ call' = [op |-> "undo", sid |-> sid, result |-> u.result,
                       popped |-> u.popped]
    /\ last_accessed' = Touch(last_accessed, sid, now)
    /\ pre_commit' = IF pre_commit.stage = "committed" /\ pre_commit.sid = sid
                     THEN [pre_commit EXCEPT !.stage = "undone"]
                     ELSE NoCommit
    /\ UNCHANGED <<nextSid, storeFixed, timers>>

\* delete_session, lines 97-98
DeleteSessionCall(sid) ==
    /\ LET d == DeleteSession(sessions, sid)
       IN  /\ sessions' = d.sessions
           /\ call' = [op |-> "delete", sid |-> sid, result |-> d.result,
                       popped |-> FALSE]
    /\ last_accessed' = Dropped(last_accessed, sid)
    /\ pre_commit' = NoCommit
    /\ UNCHANGED <<nextSid, storeFixed, timers>>

\* time passes while the cleanup thread sleeps
Tick ==
    /\ now < MaxTime
    /\ now < next_sweep
    /\ now' = now + 1
    /\ pre_commit' = NoCommit
    /\ UNCHANGED <<sessions, nextSid, call, last_accessed, next_sweep, storeFixed>>

\* faulty variant: the last access time is compared with the clock the
\* wrong way round
ExpiredReversed(la, t) == {sid \in DOMAIN la : la[sid] - t > SESSION_TTL_SECONDS}

\* _cleanup_loop, lines 108-111: the sessions one pass removes
Expired(la, t) == {sid \in DOMAIN la : t - la[sid] > SESSION_TTL_SECONDS}

\* _cleanup_loop, lines 105-113: one pass, when the sleep has ended
CleanupPass ==
    /\ now = next_sweep
    /\ sessions' = [sid \in DOMAIN sessions \ Expired(last_accessed, now) |->
                       sessions[sid]]
    /\ last_accessed' = [sid \in DOMAIN last_accessed \ Expired(last_accessed, now) |->
                            last_accessed[sid]]
    /\ next_sweep' = now + SweepPeriod
    /\ call' = [op |-> "sweep", sid |-> 0, result |-> "none", popped |-> FALSE]
    /\ pre_commit' = NoCommit
    /\ UNCHANGED <<nextSid, now, storeFixed>>

NextStore ==
    \/ CreateSession
    \/ \E sid \in StoreIds : GetSessionCall(sid)
    \/ \E sid \in StoreIds, slides \in StoreDecks : UpdateSlidesCall(sid, slides)
    \/ \E sid \in StoreIds : UndoCall(sid)
    \/ \E sid \in StoreIds : DeleteSessionCall(sid)
    \/ Tick
    \/ CleanupPass

SpecStore == InitStore /\ [][NextStore]_vars

-----------------------------------------------------------------------------
(* template_builder.py: the font size of the body of a content slide.      *)
(* A text is a Python str kept run-length encoded: a sequence of runs, a   *)
(* run being one character repeated n times.  The characters are a letter  *)
(* ("x"), a blank (" ") and the newline ("\n").  Heights are in            *)
(* thousandths of an inch, font sizes in points, Length values in EMU.     *)

MaxRunsA == 2
MaxRunsB == 3

Run(ch, n) == [ch |-> ch, n |-> n]

Runs == {Run("x", 80), Run(" ", 1), Run("\n", 1), Run("\n", 12)}

\* len(s)
RECURSIVE StrLen(_)
StrLen(s) == IF s = <<>> THEN 0 ELSE StrLen(Front(s)) + Last(s).n

\* s.split("\n"): the list of lines, never empty
RECURSIVE Split(_)
Split(s) ==
    IF s = <<>> THEN << <<>> >>
    ELSE LET lines == Split(Front(s))
             r == Last(s)
         IN  IF r.ch = "\n"
             THEN lines \o [i \in 1..r.n |-> <<>>]
             ELSE [lines EXCEPT ![Len(lines)] = Append(@, r)]

\* line.strip(): leading and trailing whitespace removed (the lines of a
\* split hold no newline)
RECURSIVE Strip(_)
Strip(line) ==
    IF line = <<>> THEN <<>>
    ELSE IF Head(line).ch = " " THEN Strip(Tail(line))
    ELSE IF Last(line).ch = " " THEN Strip(Front(line))
    ELSE line

\* pptx.util.Pt(points): a Length in EMU
Pt(points) == points * 12700

\* Length.pt
PtOf(emu) == emu \div 12700

\* lines 122-123
CONTENT_BODY_SIZE == Pt(16)
CONTENT_BODY_MIN_SIZE == Pt(10)

\* line 203, 0.028 inches per pt per line, in thousandths
LINE_HEIGHT_RATIO == 28

PyMax(a, b) == IF a >= b THEN a ELSE b

\* _estimate_text_lines, lines 192-195: what one line adds.  Called with
\* chars_per_line > 0 or on a blank line.
LineCount(line, chars_per_line) ==
    IF Strip(line) = <<>> THEN 1
    ELSE PyMax(1, (StrLen(line) \div chars_per_line) + 1)

RECURSIVE SumLineCounts(_, _)
SumLineCounts(lines, chars_per_line) ==
    IF lines = <<>> THEN 0
    ELSE SumLineCounts(Front(lines), chars_per_line)
            + LineCount(Last(lines), chars_per_line)

\* _estimate_text_lines, lines 188-196.  len(line) // 0 raises
\* ZeroDivisionError on the first line that is not blank.
EstimateTextLines(text, chars_per_line) ==
    IF chars_per_line = 0 /\ \E i \in DOMAIN Split(text) : Strip(Split(text)[i]) # <<>>
    THEN [raised |-> TRUE, total |-> 0]
    ELSE [raised |-> FALSE, total |-> SumLineCounts(Split(text), chars_per_line)]

\* faulty variant: the width of a line does not follow the size
CharsPerLineFixed(current_pt) == 80

\* line 209: int(80 * (16 / current_pt)), which is 1280 // current_pt for
\* the whole numbers of points 1..2000
CharsPerLine(current_pt) == (80 * 16) \div current_pt

\* faulty variant: the comparison is the wrong way round
FitsReversed(estimated_lines, current_pt, available_height) ==
    estimated_lines * current_pt * LINE_HEIGHT_RATIO >= available_height

\* lines 211-213: total_height <= available_height_inches
Fits(estimated_lines, current_pt, available_height) ==
    estimated_lines * current_pt * LINE_HEIGHT_RATIO <= available_height

\* the while loop of lines 208-217, entered with current_pt after
\* `iterations` passes
RECURSIVE Shrink(_, _, _, _, _)
Shrink(text, available_height, current_pt, min_pt, iterations) ==
    IF current_pt < min_pt
    THEN [raised |-> FALSE, size |-> Pt(min_pt), iterations |-> iterations]
    ELSE LET e == EstimateTextLines(text, CharsPerLine(current_pt))
         IN  IF e.raised
             THEN [raised |-> TRUE, size |-> 0, iterations |-> iterations + 1]
             ELSE IF Fits(e.total, current_pt, available_height)
             THEN [raised |-> FALSE, size |-> Pt(current_pt),
                   iterations |-> iterations + 1]
             ELSE Shrink(text, available_height, current_pt - 1, min_pt,
                         iterations + 1)

\* _calculate_font_size, lines 199-217
CalculateFontSize(content_text, available_height, max_size, min_size) ==
    Shrink(content_text, available_height, PtOf(max_size), PtOf(min_size), 0)

\* the heights and sizes of the calls: those of build_content_slide (line
\* 384: 5.0 inches, the default sizes), a lower text box, and sizes above
\* 1280 pt
Layouts ==
    { [available_height |-> 5000, max_size |-> CONTENT_BODY_SIZE,
       min_size |-> CONTENT_BODY_MIN_SIZE],
      [available_height |-> 500, max_size |-> CONTENT_BODY_SIZE,
       min_size |-> CONTENT_BODY_MIN_SIZE],
      [available_height |-> 5000, max_size |-> Pt(1281), min_size |-> Pt(1280)] }

fontFixed == <<heap, sessions, nextSid, call, existing_slides, new_slides, merged, pre,
               now, last_accessed, next_sweep, pre_commit>>

\* two texts and one layout; the function is then called on both texts
InitFont ==
    /\ \E a \in SeqsUpTo(Runs, MaxRunsA), b \in SeqsUpTo(Runs, MaxRunsB),
          layout \in Layouts :
          arg = [a |-> a, b |-> b, layout |-> layout]
    /\ out = <<>>
    /\ pc = "args"
    /\ heap = <<>>
    /\ sessions = <<>>
    /\ nextSid = 0
    /\ call = NoCall
    /\ existing_slides = <<>>
    /\ new_slides = <<>>
    /\ merged = <<>>
    /\ pre = <<>>
    /\ now = 0
    /\ last_accessed = <<>>
    /\ next_sweep = SweepPeriod
    /\ pre_commit = NoCommit

CallFont ==
    /\ pc = "args"
    /\ out' = [a |-> CalculateFontSize(arg.a, arg.layout.available_height,
                                       arg.layout.max_size, arg.layout.min_size),
               b |-> CalculateFontSize(arg.b, arg.layout.available_height,
                                       arg.layout.max_size, arg.layout.min_size)]
    /\ pc' = "done"
    /\ UNCHANGED <<arg, fontFixed>>

NextFont == CallFont

SpecFont == InitFont /\ [][NextFont]_vars

-----------------------------------------------------------------------------
(* template_builder.py: the theme palettes and get_theme.  A theme name is *)
(* a Python str kept as the sequence of its characters.                    *)

MaxPieces == 3

RGBColor(r, g, b) == <<r, g, b>>

\* lines 24-105: the dict THEMES in insertion order, the colors in decimal
THEMES == <<
    [key |-> <<"d", "a", "r", "k", "_", "p", "u", "r", "p", "l", "e">>,
     palette |-> [
        bg_dark |-> RGBColor(15, 10, 26),
        bg_gradient |-> RGBColor(26, 10, 46),
        title |-> RGBColor(255, 255, 255),
        subtitle |-> RGBColor(196, 181, 253),
        body |-> RGBColor(224, 224, 224),
        accent |-> RGBColor(124, 58, 237),
        accent_light |-> RGBColor(167, 139, 250),
        muted |-> RGBColor(156, 163, 175)]],
    [key |-> <<"o", "c", "e", "a", "n">>,
     palette |-> [
        bg_dark |-> RGBColor(3, 19, 26),
        bg_gradient |-> RGBColor(6, 30, 51),
        title |-> RGBColor(255, 255, 255),
        subtitle |-> RGBColor(125, 211, 252),
        body |-> RGBColor(214, 237, 245),
        accent |-> RGBColor(6, 143, 207),
        accent_light |-> RGBColor(56, 189, 248),
        muted |-> RGBColor(142, 168, 187)]],
    [key |-> <<"f", "o", "r", "e", "s", "t">>,
     palette |-> [
        bg_dark |-> RGBColor(7, 21, 11),
        bg_gradient |-> RGBColor(10, 40, 20),
        title |-> RGBColor(255, 255, 255),
        subtitle |-> RGBColor(134, 239, 172),
        body |-> RGBColor(216, 240, 219),
        accent |-> RGBColor(22, 163, 74),
        accent_light |-> RGBColor(74, 222, 128),
        muted |-> RGBColor(140, 175, 148)]],
    [key |-> <<"s", "u", "n", "s", "e", "t">>,
     palette |-> [
        bg_dark |-> RGBColor(26, 10, 5),
        bg_gradient |-> RGBColor(48, 16, 8),
        title |-> RGBColor(255, 255, 255),
        subtitle |-> RGBColor(253, 186, 116),
        body |-> RGBColor(240, 224, 208),
        accent |-> RGBColor(234, 88, 12),
        accent_light |-> RGBColor(251, 146, 60),
        muted |-> RGBColor(187, 160, 140)]],
    [key |-> <<"m", "i", "d", "n", "i", "g", "h", "t">>,
     palette |-> [
        bg_dark |-> RGBColor(10, 10, 20),
        bg_gradient |-> RGBColor(18, 18, 34),
        title |-> RGBColor(255, 255, 255),
        subtitle |-> RGBColor(147, 197, 253),
        body |-> RGBColor(212, 222, 236),
        accent |-> RGBColor(37, 99, 235),
        accent_light |-> RGBColor(96, 165, 250),
        muted |-> RGBColor(136, 153, 170)]],
    [key |-> <<"c", "r", "i", "m", "s", "o", "n">>,
     palette |-> [
        bg_dark |-> RGBColor(26, 6, 8),
        bg_gradient |-> RGBColor(45, 10, 15),
        title |-> RGBColor(255, 255, 255),
        subtitle |-> RGBColor(252, 165, 165),
        body |-> RGBColor(240, 220, 220),
        accent |-> RGBColor(220, 38, 38),
        accent_light |-> RGBColor(248, 113, 113),
        muted |-> RGBColor(187, 140, 140)]],
    [key |-> <<"e", "m", "e", "r", "a", "l", "d", "_", "g", "o", "l", "d">>,
     palette |-> [
        bg_dark |-> RGBColor(11, 20, 16),
        bg_gradient |-> RGBColor(18, 36, 26),
        title |-> RGBColor(255, 255, 255),
        subtitle |-> RGBColor(253, 230, 138),
        body |-> RGBColor(232, 237, 224),
        accent |-> RGBColor(202, 136, 16),
        accent_light |-> RGBColor(250, 204, 21),
        muted |-> RGBColor(160, 170, 144)]],
    [key |-> <<"r", "o", "s", "e">>,
     palette |-> [
        bg_dark |-> RGBColor(24, 8, 20),
        bg_gradient |-> RGBColor(40, 12, 34),
        title |-> RGBColor(255, 255, 255),
        subtitle |-> RGBColor(249, 168, 212),
        body |-> RGBColor(240, 220, 232),
        accent |-> RGBColor(219, 39, 119),
        accent_light |-> RGBColor(244, 114, 182),
        muted |-> RGBColor(176, 140, 160)]] >>

\* faulty variant: another theme is the default
DEFAULT_THEME_ROSE == <<"r", "o", "s", "e">>

\* line 108
DEFAULT_THEME == <<"d", "a", "r", "k", "_", "p", "u", "r", "p", "l", "e">>

\* key in THEMES
InThemes(name) == \E i \in DOMAIN THEMES : THEMES[i].key = name

\* THEMES[key], for a key that is in THEMES
Lookup(name) == THEMES[CHOOSE i \in DOMAIN THEMES : THEMES[i].key = name].palette

\* str.lower(), one character
LowerChar(c) ==
    LET lower == "A" :> "a" @@ "B" :> "b" @@ "C" :> "c" @@ "D" :> "d" @@ "E" :> "e"
        @@ "F" :> "f" @@ "G" :> "g" @@ "H" :> "h" @@ "I" :> "i" @@ "J" :>
        "j" @@ "K" :> "k" @@ "L" :> "l" @@ "M" :> "m" @@ "N" :> "n" @@ "O"
        :> "o" @@ "P" :> "p" @@ "Q" :> "q" @@ "R" :> "r" @@ "S" :> "s" @@
        "T" :> "t" @@ "U" :> "u" @@ "V" :> "v" @@ "W" :> "w" @@ "X" :> "x"
        @@ "Y" :> "y" @@ "Z" :> "z"
    IN  IF c \in DOMAIN lower THEN lower[c] ELSE c

\* str.lower()
Lower(s) == [i \in DOMAIN s |-> LowerChar(s[i])]

\* str.strip()
RECURSIVE StripStr(_)
StripStr(s) ==
    IF s = <<>> THEN <<>>
    ELSE IF Head(s) = " " THEN StripStr(Tail(s))
    ELSE IF Last(s) = " " THEN StripStr(Front(s))
    ELSE s

\* str.replace(old, new) for single characters
Replace(s, old, new) == [i \in DOMAIN s |-> IF s[i] = old THEN new ELSE s[i]]

\* a in b, for two strs
Contains(b, a) ==
    \E i \in 0..(Len(b) - Len(a)) : SubSeq(b, i + 1, i + Len(a)) = a

\* line 134
Normalize(theme_name) == Replace(Replace(StripStr(Lower(theme_name)), " ", "_"), "-", "_")

\* lines 138-140: the keys the partial match accepts, as indexes of THEMES
PartialMatches(name) ==
    {i \in DOMAIN THEMES : Contains(THEMES[i].key, name) \/ Contains(name, THEMES[i].key)}

\* the first of them in the order of the dict
FirstMatch(name) ==
    CHOOSE i \in PartialMatches(name) : \A j \in PartialMatches(name) : i <= j

\* a theme_name argument: None, or a str
None == [none |-> TRUE, str |-> <<>>]
Str(s) == [none |-> FALSE, str |-> s]

\* get_theme, lines 128-141.  None and "" are falsy.
GetTheme(theme_name) ==
    IF theme_name.none \/ theme_name.str = <<>>
    THEN Lookup(DEFAULT_THEME)
    ELSE IF InThemes(theme_name.str) THEN Lookup(theme_name.str)
    ELSE LET name == Normalize(theme_name.str)
         IN  IF InThemes(name) THEN Lookup(name)
             ELSE IF PartialMatches(name) # {} THEN THEMES[FirstMatch(name)].palette
             ELSE Lookup(DEFAULT_THEME)

\* the pieces theme names are put together from
Pieces ==
    { <<"o", "c", "e", "a", "n">>, <<"R", "o", "s", "e">>, <<"d", "a", "r", "k">>,
      <<"p", "u", "r", "p", "l", "e">>, <<" ">>, <<"-">>, <<"_">>, <<"x">> }

RECURSIVE Concat(_)
Concat(pieces) == IF pieces = <<>> THEN <<>> ELSE Head(pieces) \o Concat(Tail(pieces))

InitTheme ==
    /\ \E theme_name \in {None} \cup {Str(Concat(ps)) : ps \in SeqsUpTo(Pieces, MaxPieces)} :
          arg = [theme_name |-> theme_name]
    /\ out = <<>>
    /\ pc = "args"
    /\ heap = <<>>
    /\ sessions = <<>>
    /\ nextSid = 0
    /\ call = NoCall
    /\ existing_slides = <<>>
    /\ new_slides = <<>>
    /\ merged = <<>>
    /\ pre = <<>>
    /\ now = 0
    /\ last_accessed = <<>>
    /\ next_sweep = SweepPeriod
    /\ pre_commit = NoCommit

CallTheme ==
    /\ pc = "args"
    /\ out' = GetTheme(arg.theme_name)
    /\ pc' = "done"
    /\ UNCHANGED <<arg, fontFixed>>

NextTheme == CallTheme

SpecTheme == InitTheme /\ [][NextTheme]_vars

-----------------------------------------------------------------------------
(* template_builder.py: build_themed_presentation.  A presentation is the  *)
(* sequence of its slides; a slide is kept as what the builders put on it. *)
(* Widths are in tenths of an inch.  The files on disk are an input: a map *)
(* from the paths that exist to whether python-pptx can read the image.    *)

MaxRender == 3

\* image_path=None
NoPath == <<>>

\* the path of the image fetched for the k-th record
ImagePath(k) == <<"images", k>>

\* image_paths.get(key, None): a dict finds a key that is equal to the one
\* asked for
DictGet(d, key) ==
    IF \E k \in DOMAIN d : PyEq(k, key)
    THEN d[CHOOSE k \in DOMAIN d : PyEq(k, key)]
    ELSE NoPath

\* s[:n]
RECURSIVE Take(_, _)
Take(s, n) ==
    IF s = <<>> \/ n = 0 THEN <<>>
    ELSE IF Head(s).n <= n THEN <<Head(s)>> \o Take(Tail(s), n - Head(s).n)
    ELSE <<Run(Head(s).ch, n)>>

\* lines 431-433
Subtitle(content) ==
    IF StrLen(content) > 120 THEN Take(content, 120) \o <<Run(".", 3)>> ELSE content

\* build_title_slide, lines 268-311
BuildTitleSlide(title, subtitle, colors) ==
    [kind |-> "title", title |-> title, text |-> subtitle, badge |-> 0,
     content_width |-> 113, font_size |-> Pt(20), picture |-> NoPath,
     colors |-> colors]

\* faulty variant: a path is enough, the file is not looked for
HasImageAnyPath(image_path, files) == image_path # NoPath

\* line 340: image_path and Path(image_path).exists()
HasImage(image_path, files) == image_path # NoPath /\ image_path \in DOMAIN files

\* build_content_slide, lines 314-399.  add_picture raises on a file that
\* is not there or that it cannot read; the exception is caught (lines
\* 390-396) and the slide stays without picture.
BuildContentSlide(title, content, image_path, slide_number, colors, files) ==
    LET has_image == HasImage(image_path, files)
        fit == CalculateFontSize(content, 5000, CONTENT_BODY_SIZE, CONTENT_BODY_MIN_SIZE)
    IN  [raised |-> fit.raised,
         slide |-> [kind |-> "content", title |-> title, text |-> content,
                    badge |-> slide_number,
                    content_width |-> IF has_image THEN 75 ELSE 115,
                    font_size |-> fit.size,
                    picture |-> IF /\ has_image
                                   /\ image_path \in DOMAIN files
                                   /\ files[image_path] = "image"
                                THEN image_path ELSE NoPath,
                    colors |-> colors]]

\* faulty variant: the first record gets a content slide as well
RestAll(slides_data) == slides_data

\* line 438: slides_data[1:]
Rest(slides_data) == Tail(slides_data)

\* build_themed_presentation, lines 402-449
BuildThemedPresentation(slides_data, image_paths, theme_name, files) ==
    LET colors == GetTheme(theme_name)
    IN  IF slides_data = <<>>
        THEN [raised |-> FALSE, slides |-> <<>>]
        ELSE LET first == slides_data[1]
                 rest == Rest(slides_data)
                 built == [j \in 1..Len(rest) |->
                              BuildContentSlide(rest[j].title, rest[j].content,
                                  DictGet(image_paths, rest[j].slide_number),
                                  j + 1, colors, files)]
             IN  [raised |-> \E j \in DOMAIN built : built[j].raised,
                  slides |-> <<BuildTitleSlide(first.title, Subtitle(first.content),
                                               colors)>>
                             \o [j \in DOMAIN built |-> built[j].slide]]

\* the content of a record
Contents ==
    { <<>>, <<Run("x", 80)>>, <<Run("x", 80), Run("\n", 12), Run("x", 80)>> }

\* what there is for a record's image: no entry in image_paths, an entry
\* whose file is not there, a readable file, a file that is no image
ImageStates == {"none", "missing", "image", "corrupt"}

\* the k-th record of a deck as merge_slides leaves it
RenderRecord(k, content) ==
    [slide_number |-> PyInt(k), title |-> <<"T", k>>, content |-> content,
     narration |-> "", image_keyword |-> "k"]

InitRender ==
    /\ \E contents \in SeqsUpTo(Contents, MaxRender), theme_name \in {None, Str(<<"r", "o", "s", "e">>)} :
          \E images \in [1..Len(contents) -> ImageStates] :
             arg = [slides_data |-> [k \in 1..Len(contents) |-> RenderRecord(k, contents[k])],
                    image_paths |-> [key \in {PyInt(k) : k \in {i \in 1..Len(contents) : images[i] # "none"}} |->
                                        ImagePath(key.m \div 100)],
                    files |-> [path \in {ImagePath(k) : k \in {i \in 1..Len(contents) : images[i] \in {"image", "corrupt"}}} |->
                                  images[path[2]]],
                    theme_name |-> theme_name]
    /\ out = <<>>
    /\ pc = "args"
    /\ heap = <<>>
    /\ sessions = <<>>
    /\ nextSid = 0
    /\ call = NoCall
    /\ existing_slides = <<>>
    /\ new_slides = <<>>
    /\ merged = <<>>
    /\ pre = <<>>
    /\ now = 0
    /\ last_accessed = <<>>
    /\ next_sweep = SweepPeriod
    /\ pre_commit = NoCommit

CallRender ==
    /\ pc = "args"
    /\ out' = BuildThemedPresentation(arg.slides_data, arg.image_paths,
                                      arg.theme_name, arg.files)
    /\ pc' = "done"
    /\ UNCHANGED <<arg, fontFixed>>

NextRender == CallRender

SpecRender == InitRender /\ [][NextRender]_vars

-----------------------------------------------------------------------------
(* SessionManager called from two threads at once.  get_session holds the  *)
(* lock for the lookup only (lines 62-63); the statements of update_slides *)
(* and undo that read and write the SessionData run outside it, so they    *)
(* interleave line by line.  One session is in the store, with a history   *)
(* the store can have built (the current deck is its last snapshot), and   *)
(* each thread makes one call on it.  pc[t] is the line thread t is at,    *)
(* arg[t] its call and out[t] what the call returned.                      *)

Threads == {1, 2}

\* the id of the session the two calls name
RaceSession == 1

\* the histories the store builds from create_session and update_slides
Histories ==
    {h \in SeqsUpTo(StoreDecks, MaxStoreHist) : h # <<>>}

\* the calls a thread makes
RaceCalls ==
    {[op |-> "update", slides |-> slides] : slides \in StoreDecks}
        \cup {[op |-> "undo", slides |-> <<>>]}

InitRace ==
    /\ heap = <<Slide(PyNum(F(100)), "A", "n"), Slide(PyNum(F(200)), "A", "n")>>
    /\ \E h \in Histories :
          /\ sessions = (RaceSession :> [slides |-> Last(h), slide_history |-> h])
          /\ pre_commit = [stage |-> "race", sid |-> RaceSession,
                           slides |-> Last(h), slide_history |-> h]
    /\ arg \in [Threads -> RaceCalls]
    /\ out = [t \in Threads |-> "pending"]
    /\ pc = [t \in Threads |-> "line62"]
    /\ nextSid = 1
    /\ call = NoCall
    /\ existing_slides = <<>>
    /\ new_slides = <<>>
    /\ merged = <<>>
    /\ pre = <<>>
    /\ now = 0
    /\ last_accessed = (RaceSession :> 0)
    /\ next_sweep = SweepPeriod

raceFixed == <<heap, nextSid, call, existing_slides, new_slides, merged, pre,
               now, next_sweep, pre_commit, arg>>

\* get_session, lines 62-67, called at line 71 or 81
RaceGetSession(t) ==
    /\ pc[t] = "line62"
    /\ IF GetSession(sessions, RaceSession) = "None"
       THEN /\ out' = [out EXCEPT ![t] = "None"]
            /\ pc' = [pc EXCEPT ![t] = "done"]
       ELSE /\ pc' = [pc EXCEPT ![t] = IF arg[t].op = "update" THEN "line74"
                                       ELSE "line84"]
            /\ UNCHANGED out
    /\ last_accessed' = Touch(last_accessed, RaceSession, now)
    /\ UNCHANGED <<sessions, raceFixed>>

\* update_slides, line 74: session.slides = slides
RaceUpdateLine74(t) ==
    /\ pc[t] = "line74"
    /\ sessions' = [sessions EXCEPT ![RaceSession].slides = arg[t].slides]
    /\ pc' = [pc EXCEPT ![t] = "line75"]
    /\ UNCHANGED <<out, last_accessed, raceFixed>>

\* update_slides, lines 75-77: the snapshot is appended, the call returns
RaceUpdateLine75(t) ==
    /\ pc[t] = "line75"
    /\ sessions' = [sessions EXCEPT
                       ![RaceSession].slide_history = Append(@, arg[t].slides)]
    /\ last_accessed' = Touch(last_accessed, RaceSession, now)
    /\ out' = [out EXCEPT ![t] = "session"]
    /\ pc' = [pc EXCEPT ![t] = "done"]
    /\ UNCHANGED raceFixed

\* undo, line 84: len(session.slide_history) > 1; when it is not, the
\* call returns (lines 87-88)
RaceUndoLine84(t) ==
    /\ pc[t] = "line84"
    /\ IF UndoGuard(Len(sessions[RaceSession].slide_history))
       THEN /\ pc' = [pc EXCEPT ![t] = "line85"]
            /\ UNCHANGED <<out, last_accessed>>
       ELSE /\ pc' = [pc EXCEPT ![t] = "done"]
            /\ out' = [out EXCEPT ![t] = "session"]
            /\ last_accessed' = Touch(last_accessed, RaceSession, now)
    /\ UNCHANGED <<sessions, raceFixed>>

\* undo, line 85: session.slide_history.pop(); IndexError on an empty list
RaceUndoLine85(t) ==
    /\ pc[t] = "line85"
    /\ IF sessions[RaceSession].slide_history = <<>>
       THEN /\ out' = [out EXCEPT ![t] = "IndexError"]
            /\ pc' = [pc EXCEPT ![t] = "done"]
            /\ UNCHANGED sessions
       ELSE /\ sessions' = [sessions EXCEPT ![RaceSession].slide_history = Front(@)]
            /\ pc' = [pc EXCEPT ![t] = "line86"]
            /\ UNCHANGED out
    /\ UNCHANGED <<last_accessed, raceFixed>>

\* undo, lines 86-88: session.slides = session.slide_history[-1].copy();
\* IndexError on an empty list
RaceUndoLine86(t) ==
    /\ pc[t] = "line86"
    /\ IF sessions[RaceSession].slide_history = <<>>
       THEN /\ out' = [out EXCEPT ![t] = "IndexError"]
            /\ UNCHANGED <<sessions, last_accessed>>
       ELSE /\ sessions' = [sessions EXCEPT ![RaceSession].slides =
                                Last(sessions[RaceSession].slide_history)]
            /\ out' = [out EXCEPT ![t] = "session"]
            /\ last_accessed' = Touch(last_accessed, RaceSession, now)
    /\ pc' = [pc EXCEPT ![t] = "done"]
    /\ UNCHANGED raceFixed

NextRace ==
    \/ \E t \in Threads : RaceGetSession(t)
    \/ \E t \in Threads : RaceUpdateLine74(t)
    \/ \E t \in Threads : RaceUpdateLine75(t)
    \/ \E t \in Threads : RaceUndoLine84(t)
    \/ \E t \in Threads : RaceUndoLine85(t)
    \/ \E t \in Threads : RaceUndoLine86(t)

SpecRace == InitRace /\ [][NextRace]_vars

-----------------------------------------------------------------------------
(* The store called by a request while the cleanup thread runs.  The lock  *)
(* of line 36 is held by get_session for the lookup of lines 62-63 and by  *)
(* _cleanup_loop for lines 107-113; touch() and the lines of update_slides *)
(* and undo after get_session run without it.  pc and arg hold, for the    *)
(* caller and for the cleanup thread, the line reached and the locals.     *)

\* the longest history a session gets while the cleanup thread is followed
MaxSweepHist == 2

\* the calls whose lookup the cleanup pass may meet
SweepCalls ==
    {[op |-> "get", sid |-> sid, slides |-> <<>>] : sid \in StoreIds}
        \cup {[op |-> "update", sid |-> sid, slides |-> slides] :
                 sid \in StoreIds, slides \in StoreDecks}
        \cup {[op |-> "undo", sid |-> sid, slides |-> <<>>] : sid \in StoreIds}

\* the locals of a caller that is in no call, and of a cleanup thread asleep
NoLocals ==
    [request |-> [op |-> "none", sid |-> 0, slides |-> <<>>], found |-> FALSE,
     session |-> NewSession(<<>>), expired |-> {}]

InitSweep ==
    /\ heap = <<Slide(PyNum(F(100)), "A", "n"), Slide(PyNum(F(200)), "A", "n")>>
    /\ sessions = <<>>
    /\ nextSid = 0
    /\ call = NoCall
    /\ pc = [caller |-> "idle", cleanup |-> "line105"]
    /\ existing_slides = <<>>
    /\ new_slides = <<>>
    /\ merged = <<>>
    /\ pre = <<>>
    /\ now = 0
    /\ last_accessed = <<>>
    /\ next_sweep = SweepPeriod
    /\ pre_commit = NoCommit
    /\ arg = NoLocals
    /\ out = <<>>

\* self._lock is free: the cleanup thread is outside lines 107-113
LockFree == pc.cleanup = "line105"

\* create_session, lines 51-58, between two calls of the caller
SweepCreateSession == LockFree /\ pc.caller = "idle" /\ CreateSession

\* get_session, lines 62-63: the lookup, under the lock
GetSessionLocked(c) ==
    /\ LockFree
    /\ pc.caller = "idle"
    /\ (c.op = "update" /\ c.sid \in DOMAIN sessions) =>
           Len(sessions[c.sid].slide_history) < MaxSweepHist
    /\ arg' = [arg EXCEPT !.request = c,
                          !.found = GetSession(sessions, c.sid) = "session",
                          !.session = IF c.sid \in DOMAIN sessions
                                      THEN sessions[c.sid] ELSE NoLocals.session]
    /\ pc' = [pc EXCEPT !.caller = "line64"]
    /\ pre_commit' = NoCommit
    /\ UNCHANGED <<heap, sessions, nextSid, call, existing_slides, new_slides,
                   merged, pre, now, last_accessed, next_sweep, out>>

\* get_session lines 64-67 and the lines of update_slides (72-77) and undo
\* (82-88) that follow it, on the SessionData the lookup gave.  The caller
\* holds the object itself: while the store has it, the store sees the
\* change; once the cleanup pass has deleted the entry, the object is
\* touched and changed all the same and the store has no session to show
\* for it.
GetSessionReturn ==
    /\ pc.caller = "line64"
    /\ LET c == arg.request
           stored == c.sid \in DOMAIN sessions
           obj == IF stored THEN sessions ELSE (c.sid :> arg.session)
           u == IF ~arg.found
                THEN [sessions |-> obj, result |-> "None", popped |-> FALSE]
                ELSE IF c.op = "update"
                THEN UpdateSlides(obj, c.sid, c.slides) @@ [popped |-> FALSE]
                ELSE IF c.op = "undo"
                THEN Undo(obj, c.sid)
                ELSE [sessions |-> obj, result |-> "session", popped |-> FALSE]
       IN  /\ sessions' = IF stored THEN u.sessions ELSE sessions
           /\ last_accessed' = IF arg.found THEN Touch(last_accessed, c.sid, now)
                               ELSE last_accessed
           /\ call' = [op |-> c.op, sid |-> c.sid, result |-> u.result,
                       popped |-> u.popped]
    /\ pc' = [pc EXCEPT !.caller = "idle"]
    /\ arg' = [arg EXCEPT !.request = NoLocals.request, !.found = FALSE,
                          !.session = NoLocals.session]
    /\ pre_commit' = NoCommit
    /\ UNCHANGED <<heap, nextSid, existing_slides, new_slides, merged, pre, now,
                   next_sweep, out>>

\* time passes while the cleanup thread sleeps.  Times are kept relative to
\* a window of MaxTime units: at its end the origin moves by one unit, and
\* a last access that is older than the window stays at its start, where it
\* is older than the TTL as before.
Advance ==
    /\ now < next_sweep
    /\ IF now < MaxTime
       THEN /\ now' = now + 1
            /\ UNCHANGED <<last_accessed, next_sweep>>
       ELSE /\ now' = now
            /\ next_sweep' = next_sweep - 1
            /\ last_accessed' = [sid \in DOMAIN last_accessed |->
                                    PyMax(last_accessed[sid] - 1, 0)]
    /\ pre_commit' = NoCommit
    /\ UNCHANGED <<sessions, nextSid, call, storeFixed>>

\* _cleanup_loop, lines 106-111: the sleep has ended; the lock is taken and
\* the expired ids are listed.  No step of the caller between line 106 and
\* line 107 changes what the list holds, so the two lines are one step.
CleanupScan ==
    /\ pc.cleanup = "line105"
    /\ now = next_sweep
    /\ arg' = [arg EXCEPT !.expired = Expired(last_accessed, now)]
    /\ pc' = [pc EXCEPT !.cleanup = "line112"]
    /\ pre_commit' = NoCommit
    /\ UNCHANGED <<heap, sessions, nextSid, call, existing_slides, new_slides,
                   merged, pre, now, last_accessed, next_sweep, out>>

\* _cleanup_loop, lines 112-113: the listed sessions are deleted and the lock
\* is released; the thread sleeps again (line 105)
CleanupDelete ==
    /\ pc.cleanup = "line112"
    /\ sessions' = [sid \in DOMAIN sessions \ arg.expired |-> sessions[sid]]
    /\ last_accessed' = [sid \in DOMAIN last_accessed \ arg.expired |->
                            last_accessed[sid]]
    /\ next_sweep' = now + SweepPeriod
    /\ arg' = [arg EXCEPT !.expired = {}]
    /\ pc' = [pc EXCEPT !.cleanup = "line105"]
    /\ call' = [op |-> "sweep", sid |-> 0, result |-> "none", popped |-> FALSE]
    /\ pre_commit' = NoCommit
    /\ UNCHANGED <<heap, nextSid, existing_slides, new_slides, merged, pre, now,
                   out>>

NextSweep ==
    \/ SweepCreateSession
    \/ \E c \in SweepCalls : GetSessionLocked(c)
    \/ GetSessionReturn
    \/ Advance
    \/ CleanupScan
    \/ CleanupDelete

SpecSweep == InitSweep /\ [][NextSweep]_vars

\* the cleanup thread (daemon, while True) and the clock always go on
SpecExpiry == SpecSweep /\ WF_vars(Advance) /\ WF_vars(CleanupScan)
                        /\ WF_vars(CleanupDelete)

-----------------------------------------------------------------------------
(* Sessions whose generated deck has pairwise distinct positions.          *)

\* position of record o in heap h, as a number
Position(h, o) == FloatVal(ToFloat(h[o].slide_number))

\* no two records of the deck share a position
PairwiseDistinct(h, deck) ==
    \A i, j \in 1..Len(deck) : i # j => Position(h, deck[i]) # Position(h, deck[j])

\* the positions ascend along the deck
Ascending(h, deck) ==
    \A i, j \in 1..Len(deck) : i < j => Position(h, deck[i]) < Position(h, deck[j])

\* POST /api/slides/generate when the external model gives every record of
\* the deck a position of its own and lists the records by position (a deck
\* listed otherwise is a deck out of order before any edit)
GenerateDistinct ==
    /\ GenerateSlides
    /\ \A s \in DOMAIN sessions' \ DOMAIN sessions :
           /\ PairwiseDistinct(heap', sessions'[s].slides)
           /\ Ascending(heap', sessions'[s].slides)

NextDistinct ==
    \/ GenerateDistinct
    \/ \E sid \in SessionIds : EditSlides(sid)
    \/ \E sid \in SessionIds : UndoSlides(sid)

SpecDistinct == Init /\ [][NextDistinct]_vars

-----------------------------------------------------------------------------
(* build_content_slide on two contents: the size the text is set in and    *)
(* the text that is laid out.                                              *)

MaxContentRuns == 2

\* the same str with no two adjacent runs of one character
RECURSIVE Canonical(_)
Canonical(s) ==
    IF Len(s) <= 1 THEN s
    ELSE LET c == Canonical(Front(s))
             r == Last(s)
         IN  IF Last(c).ch = r.ch
             THEN [c EXCEPT ![Len(c)] = Run(r.ch, @.n + r.n)]
             ELSE Append(c, r)

\* line 227, re.sub(r'\n{3,}', '\n\n', text)
CollapseNewlines(text) ==
    LET c == Canonical(text)
    IN  [i \in DOMAIN c |-> IF c[i].ch = "\n" /\ c[i].n >= 3 THEN Run("\n", 2) ELSE c[i]]

\* line 228, text.strip(): blanks and newlines at both ends removed
RECURSIVE StripText(_)
StripText(text) ==
    IF text = <<>> THEN <<>>
    ELSE IF Head(text).ch \in {" ", "\n"} THEN StripText(Tail(text))
    ELSE IF Last(text).ch \in {" ", "\n"} THEN StripText(Front(text))
    ELSE text

\* _strip_html_and_markdown, lines 220-228, on a text of letters, blanks and
\* newlines: the substitutions of lines 222-226 need one of < * [ # to
\* match and leave such a text as it is
StripHtmlAndMarkdown(text) == StripText(CollapseNewlines(text))

InitContent ==
    /\ \E a \in SeqsUpTo(Runs, MaxContentRuns), b \in SeqsUpTo(Runs, MaxContentRuns) :
          arg = [a |-> a, b |-> b]
    /\ out = <<>>
    /\ pc = "args"
    /\ heap = <<>>
    /\ sessions = <<>>
    /\ nextSid = 0
    /\ call = NoCall
    /\ existing_slides = <<>>
    /\ new_slides = <<>>
    /\ merged = <<>>
    /\ pre = <<>>
    /\ now = 0
    /\ last_accessed = <<>>
    /\ next_sweep = SweepPeriod
    /\ pre_commit = NoCommit

\* build_content_slide, lines 314-399, on each content; _format_content_text
\* (line 236) lays out the stripped content in the size it is handed
CallContent ==
    /\ pc = "args"
    /\ out' = [t \in {"a", "b"} |->
                  LET built == BuildContentSlide(<<"T", 2>>, arg[t], NoPath, 2,
                                                 GetTheme(None), <<>>)
                  IN  [raised |-> built.raised,
                       font_size |-> built.slide.font_size,
                       laid_out |-> StripHtmlAndMarkdown(built.slide.text)]]
    /\ pc' = "done"
    /\ UNCHANGED <<arg, fontFixed>>

NextContent == CallContent

SpecContent == InitContent /\ [][NextContent]_vars

-----------------------------------------------------------------------------
(* Two edit requests in flight.  The handler edit_slides is a coroutine on *)
(* the one thread of the event loop and line 107 is its only await: a      *)
(* request runs from its start to line 107 and from line 107 to its end    *)
(* without another request in between.  generate_slides has no await of    *)
(* its own today (the client call of llm_service.py line 201 blocks), so   *)
(* the handler is not suspended at line 107; the model lets it be, which   *)
(* covers both.  pc, arg and out are indexed by the request.               *)

Requests == {1, 2}

\* a request that has not started
NoEdit == [session_id |-> 0, existing_slides |-> <<>>, new_slides |-> <<>>,
           overlap |-> FALSE]

InitOverlap ==
    /\ heap = <<>>
    /\ sessions = <<>>
    /\ nextSid = 0
    /\ call = NoCall
    /\ pc = [r \in Requests |-> "idle"]
    /\ existing_slides = <<>>
    /\ new_slides = <<>>
    /\ merged = <<>>
    /\ pre = <<>>
    /\ now = 0
    /\ last_accessed = <<>>
    /\ next_sweep = SweepPeriod
    /\ pre_commit = NoCommit
    /\ arg = [r \in Requests |-> NoEdit]
    /\ out = [r \in Requests |-> "pending"]

\* POST /api/slides/generate before the edit requests
OverlapGenerate ==
    /\ \A r \in Requests : pc[r] = "idle"
    /\ GenerateSlides

\* faulty variant: the merge takes the list that was read for the prompt
\* (line 110) when the request started
ExistingForMergeStale(session_slides, passed) == passed

\* slides.py line 119: existing_slides=session.slides.copy(), read after the
\* await
ExistingForMerge(session_slides, passed) == session_slides

\* edit_slides, lines 101-111, up to the await: get_session, then
\* generate_slides resets the narration of the records of the list it is
\* passed (llm_service.py lines 142-143).  pre and pre_commit keep the
\* records and the session as the first of the requests leaves them here.
EditBegin(r, sid) ==
    /\ pc[r] = "idle"
    /\ IF GetSession(sessions, sid) = "None"
       THEN /\ out' = [out EXCEPT ![r] = "404"]
            /\ pc' = [pc EXCEPT ![r] = "done"]
            /\ UNCHANGED <<heap, arg, pre, pre_commit>>
       ELSE /\ heap' = ResetNarration(heap, sessions[sid].slides)
            /\ arg' = [arg EXCEPT ![r] =
                          [session_id |-> sid,
                           existing_slides |-> sessions[sid].slides,
                           new_slides |-> <<>>,
                           overlap |-> \E q \in Requests : pc[q] = "line107"]]
            /\ pc' = [pc EXCEPT ![r] = "line107"]
            /\ IF pre_commit = NoCommit
               THEN /\ pre' = heap'
                    /\ pre_commit' = [stage |-> "edits", sid |-> sid,
                                      slides |-> sessions[sid].slides,
                                      slide_history |-> sessions[sid].slide_history]
               ELSE UNCHANGED <<pre, pre_commit>>
            /\ UNCHANGED out
    /\ call' = [op |-> "edit", sid |-> sid, result |-> GetSession(sessions, sid),
                popped |-> FALSE]
    /\ last_accessed' = Touch(last_accessed, sid, now)
    /\ UNCHANGED <<sessions, nextSid, existing_slides, new_slides, merged, timers>>

\* edit_slides, lines 107-136, from the await on: the external call raises,
\* or its answer is parsed into new records, merged into the current deck of
\* the session and committed
EditResume(r) ==
    /\ pc[r] = "line107"
    /\ LET sid == arg[r].session_id
       IN  \/ /\ out' = [out EXCEPT ![r] = "raised"]
              /\ call' = [op |-> "edit", sid |-> sid, result |-> "raised",
                          popped |-> FALSE]
              /\ UNCHANGED <<heap, sessions, arg, last_accessed>>
           \/ \E positions \in SeqsUpTo(SessionEditPos, MaxEdit) :
                 /\ Len(heap) + Len(positions) <= MaxObj
                 /\ LET h2 == Allocate(heap, positions, "B", "m")
                        m == MergeSlides(h2,
                                 ExistingForMerge(sessions[sid].slides,
                                                  arg[r].existing_slides),
                                 Allocated(heap, positions))
                        u == UpdateSlides(sessions, sid, m.merged)
                    IN  /\ heap' = m.heap
                        /\ sessions' = u.sessions
                        /\ call' = [op |-> "edit", sid |-> sid, result |-> u.result,
                                    popped |-> FALSE]
                 /\ arg' = [arg EXCEPT ![r].new_slides = positions]
                 /\ out' = [out EXCEPT ![r] = "200"]
                 /\ last_accessed' = Touch(last_accessed, sid, now)
    /\ pc' = [pc EXCEPT ![r] = "done"]
    /\ UNCHANGED <<nextSid, existing_slides, new_slides, merged, pre, pre_commit,
                   timers>>

NextOverlap ==
    \/ OverlapGenerate
    \/ \E r \in Requests, sid \in SessionIds : EditBegin(r, sid)
    \/ \E r \in Requests : EditResume(r)

SpecOverlap == InitOverlap /\ [][NextOverlap]_vars

-----------------------------------------------------------------------------
(* GET /api/slides/{session_id}/download.                                  *)

\* slide_service.create_pptx, lines 65-69: the names of its parameters
CreatePptxParameters == {"slides", "template_path", "output_path"}

\* slides.py lines 169-174: the keyword arguments of the call
DownloadKeywords == {"slides", "template_path", "output_path", "theme_name"}

\* create_pptx, lines 96-124: one slide per record of the list, in its
\* order, with the record's title, content and narration; the value
\* returned is the path of the file, a Path
CreatePptx(h, slides) ==
    [kind |-> "Path",
     file |-> [i \in 1..Len(slides) |->
                  [title |-> h[slides[i]].title, content |-> h[slides[i]].content,
                   notes |-> h[slides[i]].narration]]]

\* a call f(**keywords): a keyword that names no parameter raises TypeError
\* before the body runs
Binds(keywords, parameters) == keywords \subseteq parameters

\* `await value`: TypeError unless the value is a coroutine (create_pptx is
\* a def, not an async def)
Awaitable(value) == value.kind = "coroutine"

\* no file has been written
NoFile == <<>>

\* download_slides, lines 163-184: 404 for an unknown session; every
\* exception of lines 167-179 becomes a 500
DownloadSlides(sid) ==
    /\ IF GetSession(sessions, sid) = "None"
       THEN /\ call' = [op |-> "download", sid |-> sid, result |-> "404",
                        popped |-> FALSE]
            /\ out' = NoFile
       ELSE IF ~Binds(DownloadKeywords, CreatePptxParameters)
       THEN /\ call' = [op |-> "download", sid |-> sid, result |-> "500",
                        popped |-> FALSE]
            /\ out' = NoFile
       ELSE LET value == CreatePptx(heap, sessions[sid].slides)
            IN  /\ call' = [op |-> "download", sid |-> sid,
                            result |-> IF Awaitable(value) THEN "200" ELSE "500",
                            popped |-> FALSE]
                /\ out' = value.file
    /\ last_accessed' = Touch(last_accessed, sid, now)
    /\ UNCHANGED <<heap, sessions, nextSid, pc, existing_slides, new_slides, merged,
                   pre, pre_commit, arg, timers>>

\* the other endpoints leave the last file as it is
NextDownload ==
    \/ GenerateSlides
    \/ \E sid \in SessionIds : EditSlides(sid)
    \/ \E sid \in SessionIds : UndoSlides(sid)
    \/ \E sid \in SessionIds : DownloadSlides(sid)

SpecDownload == Init /\ [][NextDownload]_vars

-----------------------------------------------------------------------------
(* Properties of merge_slides, checked under SpecMerge *)

\* the deck's positions, read in list order, are 1, 2, ..., N
Numbered(h, deck) ==
    \A i \in 1..Len(deck) : PyEq(h[deck[i]].slide_number, PyInt(i))

\* the index of record o in a list that holds it
IndexOf(s, o) == CHOOSE i \in 1..Len(s) : s[i] = o

\* the numeric value (in hundredths) of a record's position before the call
PreVal(o) == FloatVal(ToFloat(pre[o].slide_number))

\* every field but the position is what it was before the call
SameFields(o) ==
    /\ heap[o].title = pre[o].title
    /\ heap[o].content = pre[o].content
    /\ heap[o].narration = pre[o].narration
    /\ heap[o].image_keyword = pre[o].image_keyword

\* C1: the records merge_slides returns carry, in list order, exactly the
\* integers 1, 2, ..., N as positions.
C1_Renumbered ==
    pc = "done" =>
        \A i \in 1..Len(merged) : heap[merged[i]].slide_number = PyInt(i)

C1_Witness ==
    /\ pc = "done"
    /\ Len(merged) >= 3
    /\ \E o \in Range(merged) : PreVal(o) % 100 # 0
    /\ \E o \in Range(merged) : PreVal(o) < 0

\* the call replaces the record at one existing position p of a deck 1..N
ReplaceCase(p) ==
    /\ Numbered(pre, existing_slides)
    /\ Len(new_slides) = 1
    /\ p \in 1..Len(existing_slides)
    /\ PyEq(pre[new_slides[1]].slide_number, PyInt(p))

\* C2: replace.  For a deck numbered 1..N and an edit set of one record at
\* an existing position p, the result has N records, the record at p is the
\* proposed one, the former record at p is gone, and every other record is
\* the same record at the same position.
C2_Replace ==
    pc = "done" =>
        \A p \in 1..Len(existing_slides) :
            ReplaceCase(p) =>
                /\ Len(merged) = Len(existing_slides)
                /\ merged[p] = new_slides[1]
                /\ PyEq(heap[new_slides[1]].slide_number, PyInt(p))
                /\ SameFields(new_slides[1])
                /\ existing_slides[p] \notin Range(merged)
                /\ \A i \in 1..Len(existing_slides) :
                      i # p =>
                          /\ merged[i] = existing_slides[i]
                          /\ PyEq(heap[merged[i]].slide_number,
                                  pre[merged[i]].slide_number)
                          /\ SameFields(merged[i])

C2_Witness ==
    /\ pc = "done"
    /\ Len(existing_slides) = 3
    /\ ReplaceCase(2)
    /\ heap[merged[2]].title = "B"

\* a fractional position k.d with d in 1..9 (given in hundredths)
Fractional(v) == v > 0 /\ v % 10 = 0 /\ v % 100 # 0

\* the call inserts records at fractional positions into a deck 1..N
InsertCase ==
    /\ Numbered(pre, existing_slides)
    /\ \A o \in Range(new_slides) :
          /\ Fractional(PreVal(o))
          /\ PreVal(o) \div 100 <= Len(existing_slides)

\* C3: insert.  For a deck numbered 1..N and an edit set of fractional
\* positions k.d, the result has N + |edit set| records, every inserted
\* record k.d lies after the existing record k and before the existing
\* record k+1, inserted records are in ascending order of position, and the
\* existing records keep their relative order.
C3_Insert ==
    (pc = "done" /\ InsertCase) =>
        /\ Len(merged) = Len(existing_slides) + Len(new_slides)
        /\ Range(merged) = Range(existing_slides) \cup Range(new_slides)
        /\ \A o \in Range(new_slides) : \A i \in 1..Len(existing_slides) :
              IF i <= PreVal(o) \div 100
              THEN IndexOf(merged, existing_slides[i]) < IndexOf(merged, o)
              ELSE IndexOf(merged, o) < IndexOf(merged, existing_slides[i])
        /\ \A o1, o2 \in Range(new_slides) :
              PreVal(o1) < PreVal(o2) => IndexOf(merged, o1) < IndexOf(merged, o2)
        /\ \A i, j \in 1..Len(existing_slides) :
              i < j => IndexOf(merged, existing_slides[i])
                         < IndexOf(merged, existing_slides[j])

C3_Witness ==
    /\ pc = "done"
    /\ InsertCase
    /\ Len(existing_slides) = 2
    /\ Len(new_slides) = 2
    /\ PreVal(new_slides[1]) = 120
    /\ PreVal(new_slides[2]) = 110
    /\ merged = <<1, 4, 3, 2>>

\* the positions p of the deck that the edit set negates
Negated == {p \in 1..Len(existing_slides) :
               \E o \in Range(new_slides) : PreVal(o) = -100 * p}

\* the edit set holds nothing but delete markers -p for positions p of a
\* deck 1..N
DeleteCase ==
    /\ Numbered(pre, existing_slides)
    /\ new_slides # <<>>
    /\ \A o \in Range(new_slides) :
          \E p \in 1..Len(existing_slides) : PreVal(o) = -100 * p

\* C4: delete.  For a deck numbered 1..N and an edit set of delete markers
\* -p for existing positions p, the result is exactly the existing records
\* that were not negated, in their original order, renumbered 1..M with
\* M = N - the number of distinct positions negated.
C4_Delete ==
    (pc = "done" /\ DeleteCase) =>
        LET Survives(o) == IndexOf(existing_slides, o) \notin Negated
        IN  /\ merged = SelectSeq(existing_slides, Survives)
            /\ Len(merged) = Len(existing_slides) - Cardinality(Negated)
            /\ Numbered(heap, merged)
            /\ \A o \in Range(merged) : SameFields(o)

C4_Witness ==
    /\ pc = "done"
    /\ DeleteCase
    /\ Len(existing_slides) = 3
    /\ Negated = {2}
    /\ merged = <<1, 3>>

\* record o of the edit set is a delete marker -p, p > 0
IsMarker(o) == PreVal(o) < 0

\* some record of the existing deck has the position the marker negates
HasTarget(o) == \E e \in Range(existing_slides) : PreVal(e) = -PreVal(o)

\* C5: a delete marker is never content: a record of the edit set with
\* position -p, where the existing deck holds a record at position p, does
\* not appear in the result, whatever else the edit set holds.
C5_MarkerNeverContent ==
    pc = "done" =>
        \A o \in Range(new_slides) :
            (IsMarker(o) /\ HasTarget(o)) => o \notin Range(merged)

\* the edit set holds delete markers only, none for a position that an
\* existing record has
NoOpCase ==
    /\ existing_slides # <<>>
    /\ new_slides # <<>>
    /\ \A o \in Range(new_slides) : IsMarker(o) /\ ~HasTarget(o)

\* C6: delete no-op: a delete marker for a position that no existing record
\* has leaves the record count unchanged; an edit set that holds only such
\* markers gives back the records of the existing deck, and no other.
C6_DeleteNoOp ==
    (pc = "done" /\ NoOpCase) =>
        /\ Len(merged) = Len(existing_slides)
        /\ Range(merged) = Range(existing_slides)

\* C7: merge_slides is pure: after the call every record passed in has the
\* position value and the fields it had before the call.
C7_ArgumentsUnchanged ==
    pc = "done" =>
        \A o \in Range(existing_slides) \cup Range(new_slides) :
            /\ PyEq(heap[o].slide_number, pre[o].slide_number)
            /\ SameFields(o)

-----------------------------------------------------------------------------
(* Properties of the session store, checked under Spec *)

\* two records are equal field for field (positions compared as Python does)
SameRecord(a, b) ==
    /\ PyEq(a.slide_number, b.slide_number)
    /\ a.title = b.title
    /\ a.content = b.content
    /\ a.narration = b.narration
    /\ a.image_keyword = b.image_keyword

\* deck d1 read in heap h1 equals deck d2 read in heap h2, record for record
SameDeck(h1, d1, h2, d2) ==
    /\ Len(d1) = Len(d2)
    /\ \A i \in 1..Len(d1) : SameRecord(h1[d1[i]], h2[d2[i]])

\* C8: a snapshot of a session's history is immutable: whatever request is
\* served, every snapshot that stays in the history holds records with the
\* positions, titles, content and narration it had before the request.
C8_SnapshotsImmutable ==
    [][\A s \in DOMAIN sessions \cap DOMAIN sessions' :
          \A i \in 1..Len(sessions[s].slide_history) :
              i <= Len(sessions'[s].slide_history) =>
                  SameDeck(heap', sessions'[s].slide_history[i],
                           heap, sessions[s].slide_history[i])]_vars

\* C9: undo at the floor is a no-op: an undo on a session whose history
\* holds one snapshot returns the session and leaves the history, the
\* current deck and its records as they were.
C9_UndoAtFloor ==
    [][\A s \in DOMAIN sessions :
          (call'.op = "undo" /\ call'.sid = s /\ Len(sessions[s].slide_history) = 1)
              => /\ call'.result = "session"
                 /\ s \in DOMAIN sessions'
                 /\ sessions'[s].slide_history = sessions[s].slide_history
                 /\ sessions'[s].slides = sessions[s].slides
                 /\ SameDeck(heap', sessions'[s].slides, heap, sessions[s].slides)]_vars

C9_Witness ==
    /\ call.op = "undo"
    /\ call.result = "session"
    /\ ~call.popped
    /\ call.sid \in DOMAIN sessions
    /\ Len(sessions[call.sid].slide_history) = 1
    /\ Len(sessions[call.sid].slides) = 2

\* C10: every session of the store has a history of at least one snapshot,
\* and no undo call raises.
C10_HistoryNeverEmpty ==
    /\ \A s \in DOMAIN sessions : Len(sessions[s].slide_history) >= 1
    /\ call.op = "undo" => call.result # "raised"

C10_Witness ==
    /\ call.op = "undo"
    /\ call.popped
    /\ call.result = "session"
    /\ Len(sessions[call.sid].slide_history) = 2

-----------------------------------------------------------------------------
(* Properties of the session store on its own, checked under SpecStore *)

\* an access of the store that takes a session id and hands out the session
Access(sid) ==
    \/ GetSessionCall(sid)
    \/ \E slides \in StoreDecks : UpdateSlidesCall(sid, slides)
    \/ UndoCall(sid)

\* C11: after every call the current deck of a session is the last snapshot
\* of its history (the same records in the same order), and update_slides
\* with deck D on a session makes D the current deck and the new last
\* snapshot: the history is the old history with D appended, and no record is
\* touched.
C11_CurrentIsLastSnapshot ==
    [][ /\ \A sid \in DOMAIN sessions' :
              /\ sessions'[sid].slide_history # <<>>
              /\ sessions'[sid].slides = Last(sessions'[sid].slide_history)
        /\ \A sid \in DOMAIN sessions, slides \in StoreDecks :
              UpdateSlidesCall(sid, slides) =>
                  /\ sessions'[sid].slides = slides
                  /\ sessions'[sid].slide_history =
                        Append(sessions[sid].slide_history, slides)
                  /\ heap' = heap ]_vars

C11_Witness ==
    /\ call.op = "update"
    /\ call.result = "session"
    /\ Len(sessions[call.sid].slide_history) = 3
    /\ sessions[call.sid].slide_history[2] # sessions[call.sid].slide_history[3]
    /\ sessions[call.sid].slides = sessions[call.sid].slide_history[3]

\* C12: update_slides followed immediately by undo on the same session
\* leaves the history and the current deck as they were before the
\* update_slides call.
C12_CommitUndoRoundTrip ==
    pre_commit.stage = "undone" =>
        /\ call.op = "undo"
        /\ call.result = "session"
        /\ pre_commit.sid \in DOMAIN sessions
        /\ sessions[pre_commit.sid].slide_history = pre_commit.slide_history
        /\ sessions[pre_commit.sid].slides = pre_commit.slides

C12_Witness ==
    /\ pre_commit.stage = "undone"
    /\ Len(pre_commit.slide_history) = 2
    /\ pre_commit.slide_history[1] # pre_commit.slide_history[2]
    /\ sessions[pre_commit.sid].slides = pre_commit.slides

\* C13: get_session, update_slides and undo on an id that is not in the
\* store return None and leave the store as it is; delete_session returns
\* True exactly when the id was in the store and leaves every other session
\* as it is.
C13_UnknownId ==
    [][ /\ \A sid \in StoreIds \ DOMAIN sessions :
              Access(sid) =>
                  /\ call'.result = "None"
                  /\ sessions' = sessions
                  /\ last_accessed' = last_accessed
                  /\ heap' = heap
        /\ \A sid \in StoreIds :
              DeleteSessionCall(sid) =>
                  /\ call'.result = "True" <=> sid \in DOMAIN sessions
                  /\ call'.result \in {"True", "False"}
                  /\ sid \notin DOMAIN sessions'
                  /\ \A other \in DOMAIN sessions \ {sid} :
                        /\ other \in DOMAIN sessions'
                        /\ sessions'[other] = sessions[other]
                        /\ last_accessed'[other] = last_accessed[other] ]_vars

C13_Witness ==
    /\ call.op = "delete"
    /\ call.result = "True"
    /\ call.sid \notin DOMAIN sessions
    /\ \E other \in DOMAIN sessions : Len(sessions[other].slide_history) >= 2

\* C14: get_session, update_slides and undo on a session whose idle time
\* exceeds the TTL return None and do not refresh the session's last access
\* time.
C14_ExpiredNeverServed ==
    [][ \A sid \in DOMAIN sessions :
            (now - last_accessed[sid] > SESSION_TTL_SECONDS /\ Access(sid)) =>
                /\ call'.result = "None"
                /\ sid \in DOMAIN last_accessed' => last_accessed'[sid] = last_accessed[sid]
      ]_vars

-----------------------------------------------------------------------------
(* Properties of the edit endpoint on a malformed answer, checked under SpecEdit *)

\* C15: an edit whose edit set holds a record without a position or without
\* a title reports a failure and changes nothing: the session's current deck
\* and history are the same lists and every record has the position and the
\* fields it had.
C15_MalformedEditRejected ==
    [][ \A sid \in DOMAIN sessions :
            EditSlidesMalformed(sid) =>
                /\ call'.result \in {"KeyError", "ValidationError"}
                /\ sessions' = sessions
                /\ \A o \in DOMAIN heap : heap'[o] = heap[o] ]_vars

-----------------------------------------------------------------------------
(* Properties of _calculate_font_size, checked under SpecFont *)

\* C16: for every text, every available height > 0 and positive sizes
\* min_size <= max_size the call returns, without raising, a size between
\* min_size and max_size after at most max_size - min_size + 1 passes of
\* the loop.
C16_FontSizeTotal ==
    pc = "done" =>
        /\ ~out.a.raised
        /\ arg.layout.min_size <= out.a.size
        /\ out.a.size <= arg.layout.max_size
        /\ out.a.iterations <=
              PtOf(arg.layout.max_size) - PtOf(arg.layout.min_size) + 1

\* text b is text a with characters appended
Appended(a, b) == Len(b) > Len(a) /\ SubSeq(b, 1, Len(a)) = a

\* C17 as stated: whenever text b has more characters than text a, and both
\* calls return a size, the size for b is at most the size for a.
C17_MoreCharactersNotLarger ==
    (pc = "done" /\ StrLen(arg.b) > StrLen(arg.a) /\ ~out.a.raised /\ ~out.b.raised)
        => out.b.size <= out.a.size

\* C17, amended: whenever text b is text a with characters appended and the
\* call on b returns a size, the call on a returns a size too and the size
\* for b is at most the size for a.
C17_AppendedNotLarger ==
    (pc = "done" /\ Appended(arg.a, arg.b) /\ ~out.b.raised)
        => (~out.a.raised /\ out.b.size <= out.a.size)

C17_Witness ==
    /\ pc = "done"
    /\ Appended(arg.a, arg.b)
    /\ ~out.a.raised /\ ~out.b.raised
    /\ out.b.size < out.a.size
    /\ out.b.size > arg.layout.min_size

-----------------------------------------------------------------------------
(* Properties of get_theme, checked under SpecTheme *)

\* the color roles of a palette
Roles ==
    {"bg_dark", "bg_gradient", "title", "subtitle", "body", "accent",
     "accent_light", "muted"}

\* the name is no key, is no key after normalization, and neither contains
\* a key nor is contained in one
MatchesNoKey(s) ==
    \A i \in DOMAIN THEMES :
        /\ THEMES[i].key # s
        /\ THEMES[i].key # Normalize(s)
        /\ ~Contains(THEMES[i].key, Normalize(s))
        /\ ~Contains(Normalize(s), THEMES[i].key)

\* C18: get_theme returns a palette of THEMES for None and for every str;
\* for None and for a name that matches no key (exactly, after
\* normalization, or as a substring either way) it is the palette of
\* dark_purple; every palette returned has exactly the eight color roles.
C18_ThemeLookupTotal ==
    pc = "done" =>
        /\ \E i \in DOMAIN THEMES : out = THEMES[i].palette
        /\ DOMAIN out = Roles
        /\ Cardinality(DOMAIN out) = 8
        /\ (arg.theme_name.none \/ MatchesNoKey(arg.theme_name.str))
              => out = THEMES[1].palette
        /\ THEMES[1].key = <<"d", "a", "r", "k", "_", "p", "u", "r", "p", "l", "e">>

C18_Witness ==
    /\ pc = "done"
    /\ ~arg.theme_name.none
    /\ Len(arg.theme_name.str) >= 2
    /\ \E i \in DOMAIN arg.theme_name.str : arg.theme_name.str[i] = "x"
    /\ MatchesNoKey(arg.theme_name.str)
    /\ out = THEMES[1].palette

-----------------------------------------------------------------------------
(* Properties of build_themed_presentation, checked under SpecRender *)

\* C19: the presentation has one slide per record of the deck, in deck
\* order: none for an empty deck, otherwise a title slide made from the
\* first record followed by one content slide per further record, the
\* content slide of the record at list index k (counted from 0) carrying
\* the badge number k + 1.
C19_OneSlidePerRecord ==
    pc = "done" =>
        /\ ~out.raised
        /\ Len(out.slides) = Len(arg.slides_data)
        /\ arg.slides_data # <<>> =>
              /\ out.slides[1].kind = "title"
              /\ out.slides[1].title = arg.slides_data[1].title
        /\ \A k \in 1..(Len(arg.slides_data) - 1) :
              /\ out.slides[k + 1].kind = "content"
              /\ out.slides[k + 1].title = arg.slides_data[k + 1].title
              /\ out.slides[k + 1].text = arg.slides_data[k + 1].content
              /\ out.slides[k + 1].badge = k + 1

C19_Witness ==
    /\ pc = "done"
    /\ Len(arg.slides_data) = 3
    /\ Len(out.slides) = 3
    /\ out.slides[3].badge = 3
    /\ out.slides[3].title = <<"T", 3>>

\* the path image_paths gives for the record at position k of the deck
ImageOf(k) == DictGet(arg.image_paths, arg.slides_data[k].slide_number)

\* C20: a path in image_paths whose file does not exist does not make the
\* render fail and does not change the number of slides; the content slide
\* of that record has the full-width content region, as has a content slide
\* without entry, and the content slides whose image file exists have the
\* reduced-width region.
C20_MissingImageFullWidth ==
    pc = "done" =>
        /\ ~out.raised
        /\ Len(out.slides) = Len(arg.slides_data)
        /\ \A k \in 2..Len(arg.slides_data) :
              /\ (ImageOf(k) = NoPath \/ ImageOf(k) \notin DOMAIN arg.files) =>
                    /\ out.slides[k].content_width = 115
                    /\ out.slides[k].picture = NoPath
              /\ (ImageOf(k) # NoPath /\ ImageOf(k) \in DOMAIN arg.files) =>
                    out.slides[k].content_width = 75

C20_Witness ==
    /\ pc = "done"
    /\ Len(out.slides) = 3
    /\ ImageOf(2) # NoPath /\ ImageOf(2) \notin DOMAIN arg.files
    /\ out.slides[2].content_width = 115
    /\ ImageOf(3) \in DOMAIN arg.files
    /\ out.slides[3].content_width = 75
    /\ out.slides[3].picture = ImageOf(3)

-----------------------------------------------------------------------------
(* Properties of overlapping store calls, checked under SpecRace *)

\* both calls have returned
BothReturned == \A t \in Threads : pc[t] = "done"

\* the session before the two calls, as a session map
Before ==
    (RaceSession :> [slides |-> pre_commit.slides,
                     slide_history |-> pre_commit.slide_history])

\* the session map after the call c made on the map ss, by the store
\* operations run as a whole
After(ss, c) ==
    IF c.op = "update" THEN UpdateSlides(ss, RaceSession, c.slides).sessions
    ELSE Undo(ss, RaceSession).sessions

\* the two calls run one after the other, thread t first
Serial(t) == After(After(Before, arg[t]), arg[3 - t])

\* C21: when an update_slides and an undo on the same session overlap, the
\* history and the current deck they leave are those of the two calls run
\* one after the other in one of the two orders, and the current deck is
\* the last snapshot of the history.
C21_CommitUndoSerialized ==
    (BothReturned /\ {arg[1].op, arg[2].op} = {"update", "undo"}) =>
        /\ \E t \in Threads : sessions = Serial(t)
        /\ sessions[RaceSession].slide_history # <<>>
        /\ sessions[RaceSession].slides = Last(sessions[RaceSession].slide_history)

\* C22: when two undo calls on the same session overlap, the history does
\* not become empty, neither call raises, and the outcome is that of two
\* undo calls run one after the other.
C22_TwoUndosSerialized ==
    (\A t \in Threads : arg[t].op = "undo") =>
        /\ sessions[RaceSession].slide_history # <<>>
        /\ \A t \in Threads : out[t] # "IndexError"
        /\ BothReturned => sessions = Serial(1)

-----------------------------------------------------------------------------
(* Properties of the store under the cleanup thread, checked under         *)
(* SpecSweep and SpecExpiry *)

\* C23: the cleanup pass does not race with an access: a get_session,
\* update_slides or undo call that returns the session leaves it in the
\* store with the time of the call as its last access time (so that an
\* update never succeeds on a removed session), and a pass removes only
\* sessions whose idle time exceeds the TTL.
C23_SweepDoesNotRace ==
    [][ /\ (GetSessionReturn /\ call'.result = "session") =>
               /\ call'.sid \in DOMAIN sessions'
               /\ last_accessed'[call'.sid] = now
        /\ CleanupDelete =>
               \A sid \in DOMAIN sessions \ DOMAIN sessions' :
                   now - last_accessed[sid] > SESSION_TTL_SECONDS
      ]_vars

\* a step of a get_session, update_slides or undo call on the session
SweepAccess(sid) ==
    \/ \E c \in SweepCalls : c.sid = sid /\ GetSessionLocked(c)
    \/ arg.request.sid = sid /\ GetSessionReturn

\* C24: a session that is no longer accessed from some time on is
\* eventually removed by the cleanup thread and stays removed, and every
\* lookup of a removed session's id finds nothing.
C24_IdleEventuallyExpired ==
    /\ \A sid \in StoreIds :
           \/ []<><<SweepAccess(sid)>>_vars
           \/ <>[](sid \notin DOMAIN sessions)
    /\ [][ \A c \in SweepCalls :
               (GetSessionLocked(c) /\ c.sid \in (1..nextSid) \ DOMAIN sessions) =>
                   ~arg'.found ]_vars

\* the cleanup pass has removed the first session
C24_Witness ==
    /\ call.op = "sweep"
    /\ nextSid >= 1
    /\ 1 \notin DOMAIN sessions

-----------------------------------------------------------------------------
(* Properties of the edit endpoint, checked under Spec *)

\* C25: an edit changes only what the edit set targets: an edit that does
\* not raise leaves every record of the existing deck that is in the new
\* current deck with the title, content, narration and image keyword it
\* had; only its position may change.
C25_EditKeepsUntargeted ==
    [][ \A s \in DOMAIN sessions :
            (EditSlides(s) /\ call'.result = "session") =>
                \A o \in Range(sessions[s].slides) \cap Range(sessions'[s].slides) :
                    /\ heap'[o].title = heap[o].title
                    /\ heap'[o].content = heap[o].content
                    /\ heap'[o].narration = heap[o].narration
                    /\ heap'[o].image_keyword = heap[o].image_keyword
      ]_vars

-----------------------------------------------------------------------------
(* Properties of a session generated with distinct positions, checked      *)
(* under SpecDistinct *)

\* C26: after any edits and undos on a session whose generated deck has
\* pairwise distinct positions, no two records of the current deck share a
\* position (compared as numbers) and the positions ascend along the deck.
C26_PositionsUniqueAscending ==
    \A s \in DOMAIN sessions :
        (call.op \in {"edit", "undo"} /\ call.sid = s /\ call.result = "session") =>
            /\ PairwiseDistinct(heap, sessions[s].slides)
            /\ Ascending(heap, sessions[s].slides)

-----------------------------------------------------------------------------
(* Properties of the font size as a first fit, checked under SpecFont *)

\* the lines a text takes at `width` characters per line: a blank line
\* counts 1, a line of length L counts floor(L / width) + 1
RECURSIVE LinesAt(_, _)
LinesAt(lines, width) ==
    IF lines = <<>> THEN 0
    ELSE LinesAt(Tail(lines), width)
            + (IF Strip(Head(lines)) = <<>> THEN 1
               ELSE (StrLen(Head(lines)) \div width) + 1)

\* the sizes between min_size and max_size at which the text fits the
\* height (in thousandths of an inch)
FittingSizes(text, layout) ==
    {s \in PtOf(layout.min_size)..PtOf(layout.max_size) :
        LinesAt(Split(text), 1280 \div s) * s * 28 <= layout.available_height}

\* the largest fitting size, or min_size when no size fits
FirstFit(text, layout) ==
    LET sizes == FittingSizes(text, layout)
    IN  IF sizes = {} THEN layout.min_size
        ELSE Pt(CHOOSE s \in sizes : \A r \in sizes : r <= s)

\* C27: _calculate_font_size is a first fit from the top: for sizes up to
\* 1280 pt (where a line has at least one character) it returns the largest
\* size from max_size down to min_size at which the estimated lines times
\* the size times 0.028 is at most the available height, and min_size when
\* there is none.
C27_FirstFitFromTop ==
    (pc = "done" /\ PtOf(arg.layout.max_size) <= 1280) =>
        \A t \in {"a", "b"} :
            /\ ~out[t].raised
            /\ out[t].size = FirstFit(arg[t], arg.layout)

\* a text that fits at 13 pt and at no size above, in 5.0 inches
C27_Witness ==
    /\ pc = "done"
    /\ arg.layout.max_size = CONTENT_BODY_SIZE
    /\ arg.layout.available_height = 5000
    /\ out.a.size = Pt(13)
    /\ FittingSizes(arg.a, arg.layout) = 10..13

-----------------------------------------------------------------------------
(* Properties of build_content_slide, checked under SpecContent *)

\* C28: the font size of a content slide is chosen from the normalized text
\* (the text that is laid out): two contents with the same normalized text
\* get the same font size.
C28_SizeFromNormalizedText ==
    (pc = "done" /\ out.a.laid_out = out.b.laid_out) =>
        out.a.font_size = out.b.font_size

-----------------------------------------------------------------------------
(* Properties of two edit requests in flight, checked under SpecOverlap *)

\* the records and the session after one merge and its commit
MergeCommit(st, sid, positions) ==
    LET h2 == Allocate(st.heap, positions, "B", "m")
        m == MergeSlides(h2, st.sessions[sid].slides, Allocated(st.heap, positions))
    IN  [heap |-> m.heap, sessions |-> UpdateSlides(st.sessions, sid, m.merged).sessions]

\* the merge of request r and then the merge of the other request, from
\* the session as it was when the first of them started
SerialMerges(r) ==
    LET sid == pre_commit.sid
        start == [heap |-> pre,
                  sessions |-> (sid :> [slides |-> pre_commit.slides,
                                        slide_history |-> pre_commit.slide_history])]
    IN  MergeCommit(MergeCommit(start, sid, arg[r].new_slides), sid,
                    arg[3 - r].new_slides)

\* the session and its records are those of st (the narration apart, which
\* the start of an edit resets)
SameOutcome(st) ==
    /\ sessions = st.sessions
    /\ DOMAIN heap = DOMAIN st.heap
    /\ \A o \in DOMAIN heap :
           /\ heap[o].slide_number = st.heap[o].slide_number
           /\ heap[o].title = st.heap[o].title
           /\ heap[o].content = st.heap[o].content
           /\ heap[o].image_keyword = st.heap[o].image_keyword

\* C29: no lost update between two edits of a session that are in flight
\* together: when both have answered, the session's current deck and
\* history are those of the two merges applied one after the other, in one
\* of the two orders, and the history holds both commits.
C29_NoLostUpdate ==
    (\A r \in Requests : out[r] = "200") =>
        /\ \E r \in Requests : SameOutcome(SerialMerges(r))
        /\ Len(sessions[pre_commit.sid].slide_history) =
              Len(pre_commit.slide_history) + 2

\* both requests were in flight together, both committed, and the second
\* edit set found a record of the first to replace or delete
C29_Witness ==
    /\ \A r \in Requests : out[r] = "200"
    /\ \E r \in Requests : arg[r].overlap
    /\ \A r \in Requests : arg[r].new_slides # <<>>
    /\ Len(sessions[pre_commit.sid].slides) # Len(pre_commit.slides)

-----------------------------------------------------------------------------
(* Properties of the download endpoint, checked under SpecDownload *)

\* C30: for every session in the store the download succeeds: it answers
\* 200 with a file that has one slide per record of the session's current
\* deck, in deck order.
C30_DownloadSucceeds ==
    [][ \A sid \in DOMAIN sessions :
            DownloadSlides(sid) =>
                /\ call'.result = "200"
                /\ Len(out') = Len(sessions[sid].slides)
                /\ \A i \in 1..Len(out') :
                       out'[i].title = heap[sessions[sid].slides[i]].title
      ]_vars

====
